---- MODULE Spec2Model ----
(***************************************************************************)
(* A model of lattice-core's SyntaxTree (packages/core/src/SyntaxTree.js): *)
(* the merge of GraphQL IDL documents (appendDefinitions), the transfer of *)
(* a definition between trees (consumeDefinition) and the lookups by name  *)
(* (find, findDefinition, findInASTArrayByNameValue).                      *)
(*                                                                         *)
(* Names are sequences of one-character strings, so that a regular         *)
(* expression can be matched against them position by position.            *)
(***************************************************************************)
EXTENDS Integers, Sequences, FiniteSets, TLC

VARIABLES
    this,       \* the AST ([AST_KEY]) of the SyntaxTree the methods are called on
    donor,      \* the AST of a second SyntaxTree instance the caller holds
    donorAst,   \* a parsed Document (plain AST object) the caller holds
    last,       \* the last call: its arguments, the state before it, its outcome
    ops         \* number of calls made so far

vars == <<this, donor, donorAst, last, ops>>

(***************************************************************************)
(* Bounds of the model.                                                    *)
(***************************************************************************)
MaxOps == 2
MaxFragLen == 2

(***************************************************************************)
(* AST nodes.  A Document is {kind, definitions, loc}; the object `{}` a   *)
(* tree holds when nothing was parsed has neither.  `minusOne` is the      *)
(* property "-1" of the definitions array, which an assignment             *)
(* definitions[-1] = x creates: it is not an element of the list.          *)
(***************************************************************************)
None == <<>>

Document(defs) ==
    [kind |-> "Document", defined |-> TRUE, definitions |-> defs, minusOne |-> None]

EmptyObject ==
    [kind |-> "", defined |-> FALSE, definitions |-> <<>>, minusOne |-> None]

NamedType(n) == [kind |-> "NamedType", name |-> n]

Field(n, t) == [name |-> n, type |-> NamedType(t)]

EnumValue(n, d) == [name |-> n, description |-> d]

Definition(k, n, ifs, dirs, fs, vs, ts) ==
    [kind |-> k, name |-> n, interfaces |-> ifs, directives |-> dirs,
     fields |-> fs, values |-> vs, types |-> ts]

ObjectType(n, ifs, dirs, fs) ==
    Definition("ObjectTypeDefinition", n, ifs, dirs, fs, <<>>, <<>>)
InterfaceType(n, dirs, fs) ==
    Definition("InterfaceTypeDefinition", n, <<>>, dirs, fs, <<>>, <<>>)
InputType(n, dirs, fs) ==
    Definition("InputObjectTypeDefinition", n, <<>>, dirs, fs, <<>>, <<>>)
EnumType(n, vs) ==
    Definition("EnumTypeDefinition", n, <<>>, <<>>, <<>>, vs, <<>>)
UnionType(n, ts) ==
    Definition("UnionTypeDefinition", n, <<>>, <<>>, <<>>, <<>>, ts)
ScalarType(n) ==
    Definition("ScalarTypeDefinition", n, <<>>, <<>>, <<>>, <<>>, <<>>)

\* Which child lists a parsed definition node of a kind carries.
HasFields(k) ==
    k \in {"ObjectTypeDefinition", "InterfaceTypeDefinition",
           "InputObjectTypeDefinition"}
HasInterfaces(k) == k = "ObjectTypeDefinition"
HasDirectives(k) == TRUE

(***************************************************************************)
(* typeOf, and the values a caller can pass.                               *)
(***************************************************************************)
StringArg(chars) ==
    [type |-> "String", source |-> chars, flags |-> {}, lastIndex |-> 0]

RegExpArg(src, fl, li) ==
    [type |-> "RegExp", source |-> src, flags |-> fl, lastIndex |-> li]

typeOf(x) == x.type

(***************************************************************************)
(* Regular expressions over names.  A source is a sequence of atoms: a     *)
(* literal character, "." (any character), an escaped special character,   *)
(* "^" and "$".                                                            *)
(***************************************************************************)
Special == {".", "^", "$"}

EscapeChar(c) ==
    CASE c = "." -> "\\."
      [] c = "^" -> "\\^"
      [] c = "$" -> "\\$"
      [] OTHER -> c

\* RegExp.escape(string): every special character becomes a literal.
RegExpEscape(chars) == [i \in 1..Len(chars) |-> EscapeChar(chars[i])]

AtomMatches(atom, c) ==
    \/ atom = "."
    \/ atom \notin Special /\ atom = c
    \/ \E s \in Special : atom = EscapeChar(s) /\ c = s

\* Does source, from its atom k on, match str starting at position p (0-based)?
RECURSIVE MatchFrom(_, _, _, _)
MatchFrom(src, k, str, p) ==
    IF k > Len(src) THEN TRUE
    ELSE IF src[k] = "^" THEN p = 0 /\ MatchFrom(src, k + 1, str, p)
    ELSE IF src[k] = "$" THEN p = Len(str) /\ MatchFrom(src, k + 1, str, p)
    ELSE /\ p < Len(str)
         /\ AtomMatches(src[k], str[p + 1])
         /\ MatchFrom(src, k + 1, str, p + 1)

\* new RegExp(source, flags): a fresh object, lastIndex 0.
NewRegExp(src, fl) == RegExpArg(src, fl, 0)

\* regex.test(str): a sticky regex matches at lastIndex only, a global one
\* from lastIndex on, any other anywhere.
RegExpTest(re, str) ==
    IF "y" \in re.flags
    THEN re.lastIndex <= Len(str) /\ MatchFrom(re.source, 1, str, re.lastIndex)
    ELSE LET from0 == IF "g" \in re.flags THEN re.lastIndex ELSE 0
         IN \E p \in from0..Len(str) : MatchFrom(re.source, 1, str, p)

(***************************************************************************)
(* findInASTArrayByNameValue: array.reduce(reducer, -1), then              *)
(* (~index) ? array[index] : null.  Indexes are JavaScript's (0-based);    *)
(* FoundIndex is the reduce's result.                                      *)
(***************************************************************************)
\* The reducer without `if (last !== -1) return last`: the last match wins.
ReducerLastMatch(src, fl, lst, cur, i) ==
    IF cur.name = <<>> THEN lst
    ELSE IF RegExpTest(NewRegExp(src, fl), cur.name) THEN i ELSE lst

Reducer(src, fl, lst, cur, i) ==
    IF lst # -1 THEN lst
    ELSE IF cur.name = <<>> THEN -1
    ELSE IF RegExpTest(NewRegExp(src, fl), cur.name) THEN i ELSE -1

RECURSIVE Reduce(_, _, _, _, _)
Reduce(src, fl, array, lst, i) ==
    IF i >= Len(array) THEN lst
    ELSE Reduce(src, fl, array, Reducer(src, fl, lst, array[i + 1], i), i + 1)

FoundIndex(array, name) ==
    LET isRegExp == typeOf(name) = "RegExp"
        regex == IF ~isRegExp THEN NewRegExp(RegExpEscape(name.source), {})
                 ELSE name
    IN Reduce(regex.source, regex.flags, array, -1, 0)

\* The node returned, as a sequence: <<node>>, or <<>> for null.
FindInASTArrayByNameValue(array, name) ==
    LET index == FoundIndex(array, name)
    IN IF index # -1 THEN <<array[index + 1]>> ELSE None

\* findDefinition(ast, name) / find(name); ast.definitions must be an array.
FindDefinition(ast, definitionName) ==
    FindInASTArrayByNameValue(ast.definitions, definitionName)

(***************************************************************************)
(* The external parser and printer (graphql's parse and print).  An IDL    *)
(* text is the sequence of definitions it spells, or is malformed; parse   *)
(* rejects malformed text and text without any definition, print rejects   *)
(* an object that is no AST node (it has no kind), also among the          *)
(* definitions.  Outcomes: threw is "" when nothing was  *)
(* thrown.                                                                 *)
(***************************************************************************)
Text(defs) == [ok |-> TRUE, defs |-> defs]
Malformed == [ok |-> FALSE, defs |-> <<>>]

parse(text) ==
    IF ~text.ok \/ text.defs = <<>>
    THEN [threw |-> "GraphQLError", ast |-> EmptyObject]
    ELSE [threw |-> "", ast |-> Document(text.defs)]

print(ast) ==
    IF ast.kind # "Document"
    THEN [threw |-> "Error", text |-> Malformed]
    ELSE IF \E i \in 1..Len(ast.definitions) : ast.definitions[i].kind = ""
    THEN [threw |-> "Error", text |-> Malformed]       \* Invalid AST Node
    ELSE [threw |-> "", text |-> Text(ast.definitions)]

\* What a caller passes where string | DocumentNode | SyntaxTree is accepted.
SDL(text) == [type |-> "String", text |-> text, ast |-> EmptyObject]
AST(ast) == [type |-> "Object", text |-> Malformed, ast |-> ast]
Instance(ast) == [type |-> "SyntaxTree", text |-> Malformed, ast |-> ast]

\* setAST(ast) on a new tree, the Object case: parse(print(ast)) merged into
\* {}; an error leaves {}.
SetAST(ast) ==
    LET printed == print(ast)
        parsed == parse(printed.text)
    IN IF printed.threw # "" \/ parsed.threw # "" THEN EmptyObject
       ELSE parsed.ast

\* SyntaxTree.fromSDL(sdl): parse, uncaught, then new SyntaxTree(ast).
FromSDL(text) ==
    LET parsed == parse(text)
    IN IF parsed.threw # "" THEN [threw |-> parsed.threw, tree |-> None]
       ELSE [threw |-> "", tree |-> <<SetAST(parsed.ast)>>]

\* SyntaxTree.fromAST(ast): parse(print(ast)), uncaught, then new SyntaxTree.
FromAST(ast) ==
    LET printed == print(ast)
        parsed == parse(printed.text)
    IN IF printed.threw # "" THEN [threw |-> printed.threw, tree |-> None]
       ELSE IF parsed.threw # "" THEN [threw |-> parsed.threw, tree |-> None]
       ELSE [threw |-> "", tree |-> <<SetAST(parsed.ast)>>]

\* from(string): null when the text does not parse.
FromString(text) ==
    IF parse(text).threw # "" THEN [threw |-> "", tree |-> None]
    ELSE FromSDL(text)

\* SyntaxTree.from(mixed): the new tree (<<ast>>), null (<<>>), or a throw.
From(mixed) ==
    CASE typeOf(mixed) = "String" -> FromString(mixed.text)
      [] typeOf(mixed) = "Object" ->
            IF print(mixed.ast).threw # "" THEN [threw |-> "", tree |-> None]
            ELSE FromAST(mixed.ast)
      [] typeOf(mixed) = "SyntaxTree" ->
            LET schema == print(mixed.ast)   \* mixed.toString()
            IN IF schema.threw # "" THEN [threw |-> schema.threw, tree |-> None]
               ELSE FromString(schema.text)
      [] OTHER -> [threw |-> "", tree |-> None]

\* SyntaxTree.EmptyDocument(): the Document is set by hand, not parsed.
EmptyDocument == Document(<<>>)

(***************************************************************************)
(* appendDefinitions.                                                      *)
(***************************************************************************)
\* let index = ours && this.ast.definitions.indexOf(ours) || -1, where
\* oursIndex is the position find() found ours at, -1 when ours is null.
Index(oursIndex) ==
    IF oursIndex = -1 THEN -1        \* null && ... is null, and null || -1
    ELSE IF oursIndex = 0 THEN -1    \* indexOf(ours) is 0, and 0 || -1
    ELSE oursIndex

\* this.ast.definitions[index] = theirs
AssignDefinition(ast, index, theirs) ==
    IF index = -1 THEN [ast EXCEPT !.minusOne = <<theirs>>]
    ELSE [ast EXCEPT !.definitions[index + 1] = theirs]

\* The Map of the enum merge: the first value set under a name stays.
RECURSIVE MergeValues(_, _, _)
MergeValues(sides, i, map) ==
    IF i > Len(sides) THEN map
    ELSE IF \E j \in 1..Len(map) : map[j].name = sides[i].name
         THEN MergeValues(sides, i + 1, map)
         ELSE MergeValues(sides, i + 1, Append(map, sides[i]))

\* The switch with interfaces and input objects merged the way object types are.
MergeSameKindAllFielded(ours, theirs) ==
    CASE HasFields(theirs.kind) ->
            <<[ours EXCEPT !.interfaces = ours.interfaces \o theirs.interfaces,
                           !.directives = ours.directives \o theirs.directives,
                           !.fields = ours.fields \o theirs.fields]>>
      [] theirs.kind = "EnumTypeDefinition" ->
            <<[ours EXCEPT !.values =
                   MergeValues(ours.values \o theirs.values, 1, <<>>)]>>
      [] OTHER -> None

\* The merge of two definitions of the same kind; <<>> when the kind is one
\* the switch does not merge.
MergeSameKind(ours, theirs) ==
    CASE theirs.kind = "ObjectTypeDefinition" ->
            <<[ours EXCEPT !.interfaces = ours.interfaces \o theirs.interfaces,
                           !.directives = ours.directives \o theirs.directives,
                           !.fields = ours.fields \o theirs.fields]>>
      [] theirs.kind = "EnumTypeDefinition" ->
            <<[ours EXCEPT !.values =
                   MergeValues(ours.values \o theirs.values, 1, <<>>)]>>
      [] OTHER -> None

\* One turn of the loop over the source's definitions.  st = [ast, set, threw].
AppendOne(st, theirs) ==
    LET name == theirs.name
        defs == st.ast.definitions
        oursIndex == FoundIndex(defs, StringArg(name))    \* this.find(name)
        index == Index(oursIndex)
    IN IF st.threw # "" THEN st
       ELSE IF name \notin st.set
       THEN [st EXCEPT !.set = st.set \cup {name},
                       !.ast.definitions = Append(defs, theirs)]
       ELSE IF oursIndex = -1
       THEN [st EXCEPT !.threw = "TypeError"]             \* ours.kind of null
       ELSE LET ours == defs[oursIndex + 1]
                merged == MergeSameKind(ours, theirs)
            IN IF theirs.kind # ours.kind
               THEN [st EXCEPT !.ast = AssignDefinition(st.ast, index, theirs)]
               ELSE IF merged # None
               THEN [st EXCEPT !.ast.definitions[oursIndex + 1] = merged[1]]
               ELSE [st EXCEPT !.ast = AssignDefinition(st.ast, index, theirs)]

RECURSIVE AppendLoop(_, _, _)
AppendLoop(st, source, i) ==
    IF i > Len(source) THEN st
    ELSE AppendLoop(AppendOne(st, source[i]), source, i + 1)

\* The guard without its `source &&`.
SourceUsableUnchecked(source, ast) == ast.defined

\* if (source && source.ast.definitions && this.ast.definitions)
SourceUsable(source, ast) ==
    source # None /\ source[1].defined /\ ast.defined

\* appendDefinitions(schemaOrASTOrST) on the tree holding ast: what is thrown
\* and the tree's AST afterwards; the call returns this.
AppendDefinitions(ast, schemaOrASTOrST) ==
    LET source == From(schemaOrASTOrST)
        set == {ast.definitions[i].name : i \in 1..Len(ast.definitions)}
    IN IF source.threw # "" THEN [threw |-> source.threw, ast |-> ast]
       ELSE IF ~ast.defined
       THEN [threw |-> "TypeError", ast |-> ast]   \* definitions.map of undefined
       ELSE IF ~SourceUsable(source.tree, ast) THEN [threw |-> "", ast |-> ast]
       ELSE IF source.tree = None
       THEN [threw |-> "TypeError", ast |-> ast]          \* source.ast of null
       ELSE LET st == AppendLoop([ast |-> ast, set |-> set, threw |-> ""],
                                 source.tree[1].definitions, 1)
            IN [threw |-> st.threw, ast |-> st.ast]

(***************************************************************************)
(* consumeDefinition.                                                      *)
(***************************************************************************)
NullArg == [type |-> "Null", text |-> Malformed, ast |-> EmptyObject]

\* array.splice(i, 1), i 0-based
Splice(array, i) ==
    [j \in 1..(Len(array) - 1) |-> IF j <= i THEN array[j] ELSE array[j + 1]]

\* The switch with the operands of the field concatenation exchanged.
ConsumeMergeRightFirst(left, right) ==
    IF left.kind = "ObjectTypeDefinition"
    THEN [left EXCEPT !.interfaces = left.interfaces \o right.interfaces,
                      !.directives = left.directives \o right.directives,
                      !.fields = right.fields \o left.fields]
    ELSE left

\* The switch on left.kind: an ObjectTypeDefinition takes the lists right has.
ConsumeMerge(left, right) ==
    IF left.kind = "ObjectTypeDefinition"
    THEN [left EXCEPT
            !.interfaces = IF HasInterfaces(left.kind) /\ HasInterfaces(right.kind)
                           THEN left.interfaces \o right.interfaces
                           ELSE left.interfaces,
            !.directives = IF HasDirectives(left.kind) /\ HasDirectives(right.kind)
                           THEN left.directives \o right.directives
                           ELSE left.directives,
            !.fields = IF HasFields(left.kind) /\ HasFields(right.kind)
                       THEN left.fields \o right.fields
                       ELSE left.fields]
    ELSE left

\* const tree = typeOf(astOrSyntaxTree) === SyntaxTree.name
\*   ? astOrSyntaxTree : SyntaxTree.from(astOrSyntaxTree)
DonorTree(astOrSyntaxTree) ==
    IF typeOf(astOrSyntaxTree) = "SyntaxTree"
    THEN [threw |-> "", tree |-> <<astOrSyntaxTree.ast>>]
    ELSE From(astOrSyntaxTree)

\* consumeDefinition(astOrSyntaxTree, definitionType) on the tree holding ast:
\* what is thrown, this tree's AST afterwards and the AST of `tree` afterwards
\* (<<>> when there is no tree); the call returns this.
ConsumeDefinition(ast, astOrSyntaxTree, definitionType) ==
    IF typeOf(astOrSyntaxTree) = "Null" \/ ~ast.defined
    THEN [threw |-> "", ast |-> ast, tree |-> None]
    ELSE
    LET made == DonorTree(astOrSyntaxTree)
    IN IF made.threw # "" THEN [threw |-> made.threw, ast |-> ast, tree |-> None]
       ELSE IF made.tree = None                            \* null.find
       THEN [threw |-> "TypeError", ast |-> ast, tree |-> None]
       ELSE IF ~made.tree[1].defined                       \* undefined.reduce
       THEN [threw |-> "TypeError", ast |-> ast, tree |-> made.tree]
       ELSE
       LET tree == made.tree[1]
           leftIndex == FoundIndex(ast.definitions, definitionType)
           rightIndex == FoundIndex(tree.definitions, definitionType)
       IN IF rightIndex = -1 THEN [threw |-> "", ast |-> ast, tree |-> <<tree>>]
          ELSE
          LET right == tree.definitions[rightIndex + 1]
              spliced == [tree EXCEPT !.definitions = Splice(@, rightIndex)]
          IN IF leftIndex = -1
             THEN [threw |-> "",
                   ast |-> [ast EXCEPT !.definitions = Append(@, right)],
                   tree |-> <<spliced>>]
             ELSE [threw |-> "",
                   ast |-> [ast EXCEPT !.definitions[leftIndex + 1] =
                                           ConsumeMerge(@, right)],
                   tree |-> <<spliced>>]

(***************************************************************************)
(* Inputs.                                                                 *)
(***************************************************************************)
Q == <<"Q">>
QR == <<"Q", "R">>

ObjQa == ObjectType(Q, <<"I">>, <<"d">>, <<Field(<<"a">>, "String")>>)
ObjQb == ObjectType(Q, <<"J">>, <<"e">>, <<Field(<<"b">>, "Int")>>)
ObjQRc == ObjectType(QR, <<>>, <<>>, <<Field(<<"c">>, "Int")>>)
ScalarQ == ScalarType(Q)
UnionQ == UnionType(Q, <<"A", "B">>)
EnumQ1 == EnumType(Q, <<EnumValue(<<"R">>, "ours"), EnumValue(<<"G">>, "ours")>>)
EnumQ2 == EnumType(Q, <<EnumValue(<<"G">>, "theirs"), EnumValue(<<"B">>, "theirs")>>)
IfaceQa == InterfaceType(Q, <<"d">>, <<Field(<<"a">>, "String")>>)
IfaceQb == InterfaceType(Q, <<"e">>, <<Field(<<"b">>, "Int")>>)
InputQa == InputType(Q, <<"d">>, <<Field(<<"a">>, "String")>>)
R == <<"R">>
ScalarR == ScalarType(R)

ObjectPool == {ObjQa, ObjQb, ObjQRc, UnionQ}
EnumPool == {EnumQ1, EnumQ2, ScalarQ, ObjQRc}
InterfacePool == {ScalarR, IfaceQa, IfaceQb, InputQa}

\* The documents of at most MaxFragLen definitions drawn from a pool.
Fragments(pool) == UNION {[1..n -> pool] : n \in 0..MaxFragLen}

\* What appendDefinitions is called with: IDL text, and the degenerate values.
AppendInputs(pool) ==
    {SDL(Text(f)) : f \in Fragments(pool)}
    \cup {SDL(Malformed), Instance(EmptyDocument), AST(EmptyDocument),
          Instance(EmptyObject)}

NoName == StringArg(<<>>)

Call(op, arg, name, pre, threw, found) ==
    [op |-> op, arg |-> arg, name |-> name, pre |-> pre, threw |-> threw,
     found |-> found]

NoCall == Call("new", NullArg, NoName, EmptyObject, "", None)

(***************************************************************************)
(* Actions.                                                                *)
(***************************************************************************)
DoAppend(mixed) ==
    /\ ops < MaxOps
    /\ LET out == AppendDefinitions(this, mixed)
       IN /\ this' = out.ast
          /\ last' = Call("appendDefinitions", mixed, NoName, this, out.threw, None)
    /\ ops' = ops + 1
    /\ UNCHANGED <<donor, donorAst>>

AppendObjects == \E mixed \in AppendInputs(ObjectPool) : DoAppend(mixed)
AppendEnums == \E mixed \in AppendInputs(EnumPool) : DoAppend(mixed)
AppendInterfaces == \E mixed \in AppendInputs(InterfacePool) : DoAppend(mixed)

\* let tree = SyntaxTree.EmptyDocument(), as factory starts
InitEmpty ==
    /\ this = EmptyDocument
    /\ donor = EmptyDocument
    /\ donorAst = EmptyDocument
    /\ last = NoCall
    /\ ops = 0

Init == InitEmpty
Next == AppendObjects
Spec == Init /\ [][Next]_vars

NextEnum == AppendEnums
SpecEnum == Init /\ [][NextEnum]_vars

NextInterface == AppendInterfaces
SpecInterface == Init /\ [][NextInterface]_vars

(***************************************************************************)
(* consumeDefinition between a tree and a donor the caller built from IDL  *)
(* text, passed either as the instance or as the parsed Document.          *)
(***************************************************************************)
ConsumePool == {ObjQa, ObjQb, ObjQRc, EnumQ1}
FindPool == {ObjQa, EnumQ1, ObjQRc, ScalarR}

\* SyntaxTree.from(text), or SyntaxTree.EmptyDocument() for no definitions
TreeOf(f) ==
    IF f = <<>> THEN EmptyDocument ELSE From(SDL(Text(f))).tree[1]

\* new SyntaxTree(): the AST is {}
NewSyntaxTree == EmptyObject

\* The default "Query", as a string and as a pattern
DefinitionTypes == {StringArg(Q), RegExpArg(<<"^", "Q", "$">>, {}, 0)}

InitConsume ==
    /\ this \in {TreeOf(f) : f \in Fragments(ConsumePool)}
    /\ \/ \E f \in Fragments(ConsumePool) :
            donor = TreeOf(f) /\ donorAst = Document(f)
       \/ donor = NewSyntaxTree /\ donorAst = EmptyObject
    /\ last = NoCall
    /\ ops = 0

DoConsume(astOrSyntaxTree, definitionType) ==
    /\ ops < MaxOps
    /\ LET out == ConsumeDefinition(this, astOrSyntaxTree, definitionType)
       IN /\ this' = out.ast
          /\ donor' = IF typeOf(astOrSyntaxTree) = "SyntaxTree" /\ out.tree # None
                      THEN out.tree[1] ELSE donor
          /\ last' = Call("consumeDefinition", astOrSyntaxTree, definitionType,
                          this, out.threw, None)
    /\ ops' = ops + 1
    /\ UNCHANGED donorAst   \* from() works on a copy of the Document passed

ConsumeInstance == \E n \in DefinitionTypes : DoConsume(Instance(donor), n)
ConsumeDocument == \E n \in DefinitionTypes : DoConsume(AST(donorAst), n)

NextConsume == ConsumeInstance \/ ConsumeDocument
SpecConsume == InitConsume /\ [][NextConsume]_vars

(***************************************************************************)
(* Lookups.                                                                *)
(***************************************************************************)
Sources ==
    {<<"Q">>, <<"R">>, <<"Q", "R">>, <<"Q", ".">>, <<"^", "Q", "$">>, <<"^", "R">>,
     <<"M">>}

Lookups ==
    {StringArg(s) : s \in Sources}
    \cup {RegExpArg(s, fl, li) : s \in Sources, fl \in SUBSET {"g", "y"}, li \in 0..1}

InitFind ==
    /\ this \in {TreeOf(f) : f \in Fragments(FindPool)} \cup {NewSyntaxTree}
    /\ donor = EmptyDocument
    /\ donorAst = EmptyDocument
    /\ last = NoCall
    /\ ops = 0

\* find(definitionName): findDefinition(this[AST_KEY], definitionName)
Find(ast, definitionName) ==
    IF ~ast.defined THEN [threw |-> "TypeError", found |-> None]
    ELSE [threw |-> "", found |-> FindDefinition(ast, definitionName)]

DoFind ==
    \E n \in Lookups :
        /\ LET out == Find(this, n)
           IN last' = Call("find", NullArg, n, this, out.threw, out.found)
        /\ UNCHANGED <<this, donor, donorAst, ops>>

NextFind == DoFind
SpecFind == InitFind /\ [][NextFind]_vars

(***************************************************************************)
(* Type references.  A type node is a NamedType, or a ListType or          *)
(* NonNullType around another type node.  typeNode.type and                *)
(* typeNode.name.value are undefined (<<>>) on the nodes that lack them.   *)
(***************************************************************************)
ListType(t) == [kind |-> "ListType", type |-> t]
NonNullType(t) == [kind |-> "NonNullType", type |-> t]

FieldOf(n, typeNode) == [name |-> n, type |-> typeNode]

\* node && node.type, for a node that may be undefined
TypeProp(node) ==
    IF node = None THEN None
    ELSE IF node[1].kind \in {"ListType", "NonNullType"} THEN <<node[1].type>>
    ELSE None

\* node && node.name && node.name.value
NameValue(node) ==
    IF node = None THEN None
    ELSE IF node[1].kind = "NamedType" THEN <<node[1].name>>
    ELSE None

\* readType with the list test on the outermost wrapper only.
ReadTypeOuterOnly(typeNode, setName) ==
    LET t1 == TypeProp(<<typeNode>>)
        t2 == TypeProp(t1)
        t3 == TypeProp(t2)
    IN [required |-> typeNode.kind = "NonNullType",
        array |-> typeNode.kind = "ListType",
        type |-> IF NameValue(t3) # None THEN NameValue(t3)
                 ELSE IF NameValue(t2) # None THEN NameValue(t2)
                 ELSE IF NameValue(t1) # None THEN NameValue(t1)
                 ELSE NameValue(<<typeNode>>),
        name |-> setName]

\* SyntaxTree.readType(typeNode, setName): type is <<name>>, or <<>> for
\* undefined; name is <<setName>>, or <<>> when no name was given.
ReadType(typeNode, setName) ==
    LET t1 == TypeProp(<<typeNode>>)
        t2 == TypeProp(t1)
        t3 == TypeProp(t2)
    IN [required |-> typeNode.kind = "NonNullType",
        array |-> \/ typeNode.kind = "ListType"
                  \/ (t1 # None /\ t1[1].kind = "ListType"),
        type |-> IF NameValue(t3) # None THEN NameValue(t3)
                 ELSE IF NameValue(t2) # None THEN NameValue(t2)
                 ELSE IF NameValue(t1) # None THEN NameValue(t1)
                 ELSE NameValue(<<typeNode>>),
        name |-> setName]

(***************************************************************************)
(* findField and findEnumDefinition.  A result is what was thrown and the  *)
(* value returned: <<>> for null, <<value>> otherwise.                     *)
(***************************************************************************)
\* The meta of findField: what is thrown and the meta object.
Meta(field) ==
    IF field.type.kind = "NonNullType"
    THEN IF NameValue(<<field.type.type>>) = None
         THEN [threw |-> "TypeError", meta |-> None]   \* undefined.value
         ELSE [threw |-> "",
               meta |-> <<[name |-> <<field.name>>,
                           type |-> NameValue(<<field.type.type>>),
                           nullable |-> FALSE]>>]
    ELSE [threw |-> "",
          meta |-> <<[name |-> <<field.name>>,
                      type |-> NameValue(<<field.type>>),     \* ... || null
                      nullable |-> TRUE]>>]

\* findField(ast, definitionName, fieldName): null, or {field, meta}
FindField(ast, definitionName, fieldName) ==
    IF ~ast.defined THEN [threw |-> "TypeError", found |-> None]
    ELSE
    LET definition == FindDefinition(ast, definitionName)
    IN IF definition = None \/ ~HasFields(definition[1].kind)
       THEN [threw |-> "", found |-> None]
       ELSE
       LET field == FindInASTArrayByNameValue(definition[1].fields, fieldName)
       IN IF field = None
          THEN [threw |-> "", found |-> <<[field |-> None, meta |-> None]>>]
          ELSE LET m == Meta(field[1])
               IN IF m.threw # "" THEN [threw |-> m.threw, found |-> None]
                  ELSE [threw |-> "",
                        found |-> <<[field |-> field, meta |-> m.meta]>>]

\* findEnumDefinition(ast, enumDefinitionName, enumValueName)
FindEnumDefinition(ast, enumDefinitionName, enumValueName) ==
    IF ~ast.defined THEN [threw |-> "TypeError", found |-> None]
    ELSE
    LET definition == FindDefinition(ast, enumDefinitionName)
    IN IF definition = None \/ definition[1].kind # "EnumTypeDefinition"
       THEN [threw |-> "", found |-> None]
       ELSE [threw |-> "",
             found |-> FindInASTArrayByNameValue(definition[1].values,
                                                 enumValueName)]

(***************************************************************************)
(* The outline getter.  A mapping is a function from names; the outline is *)
(* rebuilt from the definitions, in document order, on every access.       *)
(***************************************************************************)
EmptyMap == <<>>

\* map[key] = val
Put(map, key, val) ==
    [k \in (DOMAIN map) \cup {key} |-> IF k = key THEN val ELSE map[k]]

\* definition.fields.forEach: out[name] = readType(field.type, name), and
\* the args of a field defined without arguments.
RECURSIVE OutlineFields(_, _, _)
OutlineFields(fields, i, out) ==
    IF i > Len(fields) THEN out
    ELSE LET name == fields[i].name
             read == ReadType(fields[i].type, <<name>>)
         IN OutlineFields(fields, i + 1,
                Put(out, name, [required |-> read.required,
                                array |-> read.array,
                                type |-> read.type,
                                name |-> read.name,
                                args |-> <<>>]))

\* definition.values.forEach: out[value.name.value] = value.name.value
RECURSIVE OutlineValues(_, _, _)
OutlineValues(values, i, out) ==
    IF i > Len(values) THEN out
    ELSE OutlineValues(values, i + 1, Put(out, values[i].name, values[i].name))

BucketOf(kind) ==
    CASE kind = "InterfaceTypeDefinition" -> "interfaces"
      [] kind = "ObjectTypeDefinition" -> "types"
      [] kind = "InputObjectTypeDefinition" -> "inputs"
      [] kind = "EnumTypeDefinition" -> "enums"
      [] kind = "UnionTypeDefinition" -> "unions"
      [] kind = "ScalarTypeDefinition" -> "scalars"
      [] OTHER -> ""

\* One turn of the loop over the definitions: the switch on definition.kind.
\* The entry of a fielded definition is its fields by name and, under the
\* symbol `interfaces`, the names the definition implements.
OutlineOne(outline, definition) ==
    CASE HasFields(definition.kind) ->
            LET key == BucketOf(definition.kind)
                entry == [fields |-> OutlineFields(definition.fields, 1, EmptyMap),
                          interfaces |-> IF HasInterfaces(definition.kind)
                                         THEN <<definition.interfaces>> ELSE None]
            IN [outline EXCEPT ![key] = Put(@, definition.name, entry)]
      [] definition.kind = "EnumTypeDefinition" ->
            [outline EXCEPT !.enums =
                Put(@, definition.name,
                    OutlineValues(definition.values, 1, EmptyMap))]
      [] definition.kind = "UnionTypeDefinition" ->
            [outline EXCEPT !.unions = Put(@, definition.name, definition.types)]
      [] definition.kind = "ScalarTypeDefinition" ->
            [outline EXCEPT !.scalars = Append(@, definition.name)]
      [] OTHER -> outline

RECURSIVE OutlineLoop(_, _, _)
OutlineLoop(outline, definitions, i) ==
    IF i > Len(definitions) THEN outline
    ELSE OutlineLoop(OutlineOne(outline, definitions[i]), definitions, i + 1)

\* get outline(): the iterator of a tree without a definitions list
\* delegates to itself (yield* this) until the stack is exhausted.
Outline(ast) ==
    IF ~ast.defined THEN [threw |-> "RangeError", outline |-> None]
    ELSE [threw |-> "",
          outline |-> <<OutlineLoop([interfaces |-> EmptyMap, types |-> EmptyMap,
                                     enums |-> EmptyMap, unions |-> EmptyMap,
                                     inputs |-> EmptyMap, scalars |-> <<>>],
                                    ast.definitions, 1)>>]

\* for (let definition of tree): the definitions in order; without a
\* definitions list the generator delegates to itself (yield* this), call
\* within call, until the stack is exhausted.
Iterate(ast) ==
    IF ~ast.defined THEN [threw |-> "RangeError", yielded |-> <<>>]
    ELSE [threw |-> "", yielded |-> ast.definitions]

(***************************************************************************)
(* Lookups of fields and enum values, the outline and readType, on trees   *)
(* built from IDL text and on a tree built without input.                  *)
(***************************************************************************)
MaxWrappers == 4

\* The type references of at most n wrappers; NonNull never wraps NonNull.
RECURSIVE TypeNodes(_)
TypeNodes(n) ==
    IF n = 0 THEN {NamedType("Int")}
    ELSE LET inner == TypeNodes(n - 1)
         IN inner \cup {ListType(t) : t \in inner}
                  \cup {NonNullType(t) : t \in {u \in inner : u.kind # "NonNullType"}}

T == <<"T">>

\* type T implements I { a: String  b: Int!  c: [Int]  d: [Int]! }
ObjPlain ==
    ObjectType(T, <<"I">>, <<>>,
               <<FieldOf(<<"a">>, NamedType("String")),
                 FieldOf(<<"b">>, NonNullType(NamedType("Int"))),
                 FieldOf(<<"c">>, ListType(NamedType("Int"))),
                 FieldOf(<<"d">>, NonNullType(ListType(NamedType("Int"))))>>)
\* type T { e: Int }
ObjOther == ObjectType(T, <<>>, <<>>, <<FieldOf(<<"e">>, NamedType("Int"))>>)
\* type G { a: [[Int!]!] }
ObjDeep ==
    ObjectType(<<"G">>, <<>>, <<>>,
               <<FieldOf(<<"a">>,
                    ListType(NonNullType(ListType(NonNullType(NamedType("Int"))))))>>)
IfaceI == InterfaceType(<<"I">>, <<>>, <<FieldOf(<<"a">>, NamedType("String"))>>)
InputN == InputType(<<"N">>, <<>>, <<FieldOf(<<"b">>, NonNullType(NamedType("Int")))>>)
EnumE == EnumType(<<"E">>, <<EnumValue(<<"R">>, ""), EnumValue(<<"G">>, "")>>)
UnionU == UnionType(<<"U">>, <<"A", "B">>)
ScalarS == ScalarType(<<"S">>)

FieldPool == {ObjPlain, ObjOther, ObjDeep, IfaceI, InputN, EnumE, UnionU, ScalarS}

DefinitionNames ==
    {StringArg(T), StringArg(<<"E">>), StringArg(<<"M">>), RegExpArg(<<".">>, {}, 0)}
MemberNames ==
    {StringArg(<<"a">>), StringArg(<<"b">>), StringArg(<<"c">>), StringArg(<<"d">>),
     StringArg(<<"R">>), StringArg(<<"z">>)}

\* A call of one of the static lookups, of the outline or of readType: the
\* calls change nothing, and each behaviour observes one of them.
Lookup(op, name, member, pre, threw, found) ==
    [op |-> op, arg |-> NullArg, name |-> name, member |-> member, pre |-> pre,
     threw |-> threw, found |-> found]

InitField ==
    /\ this \in {TreeOf(f) : f \in Fragments(FieldPool)} \cup {NewSyntaxTree}
    /\ donor = EmptyDocument
    /\ donorAst = EmptyDocument
    /\ last = NoCall
    /\ ops = 0

DoFindDefinition ==
    \E n \in DefinitionNames :
        /\ last = NoCall
        /\ LET out == Find(this, n)
           IN last' = Lookup("findDefinition", n, NoName, this, out.threw, out.found)
        /\ UNCHANGED <<this, donor, donorAst, ops>>

DoFindField ==
    \E n \in DefinitionNames, m \in MemberNames :
        /\ last = NoCall
        /\ LET out == FindField(this, n, m)
           IN last' = Lookup("findField", n, m, this, out.threw, out.found)
        /\ UNCHANGED <<this, donor, donorAst, ops>>

DoFindEnumDefinition ==
    \E n \in DefinitionNames, m \in MemberNames :
        /\ last = NoCall
        /\ LET out == FindEnumDefinition(this, n, m)
           IN last' = Lookup("findEnumDefinition", n, m, this, out.threw, out.found)
        /\ UNCHANGED <<this, donor, donorAst, ops>>

DoOutline ==
    /\ last = NoCall
    /\ LET out == Outline(this)
       IN last' = Lookup("outline", NoName, NoName, this, out.threw, out.outline)
    /\ UNCHANGED <<this, donor, donorAst, ops>>

\* [...tree]
DoIterate ==
    /\ last = NoCall
    /\ LET out == Iterate(this)
       IN last' = Lookup("iterate", NoName, NoName, this, out.threw, out.yielded)
    /\ UNCHANGED <<this, donor, donorAst, ops>>

\* SyntaxTree.readType(typeNode) and SyntaxTree.readType(typeNode, setName);
\* the type node read is kept as the call's argument.
DoReadType ==
    \E typeNode \in TypeNodes(MaxWrappers), setName \in {None, <<"a">>} :
        /\ last = NoCall
        /\ last' = [Lookup("readType", NoName, NoName, this, "",
                           <<ReadType(typeNode, setName)>>)
                    EXCEPT !.arg = typeNode]
        /\ UNCHANGED <<this, donor, donorAst, ops>>

NextField ==
    \/ DoFindDefinition
    \/ DoFindField
    \/ DoFindEnumDefinition
    \/ DoOutline
    \/ DoIterate
    \/ DoReadType
SpecField == InitField /\ [][NextField]_vars

(***************************************************************************)
(* The compiled schema (get schema: buildASTSchema of the tree's AST), as  *)
(* far as factory reads it: _typeMap with each type's _fields and their    *)
(* resolve, and _queryType, _mutationType, _subscriptionType.  Type names  *)
(* are spelled out, since factory tests them against a pattern.            *)
(***************************************************************************)
Query == <<"Q", "u", "e", "r", "y">>
Mutation == <<"M", "u", "t", "a", "t", "i", "o", "n">>
Subscription == <<"S", "u", "b", "s", "c", "r", "i", "p", "t", "i", "o", "n">>
String == <<"S", "t", "r", "i", "n", "g">>
IntType == <<"I", "n", "t">>
Float == <<"F", "l", "o", "a", "t">>
Boolean == <<"B", "o", "o", "l", "e", "a", "n">>
ID == <<"I", "D">>
SchemaType == <<"_", "_", "S", "c", "h", "e", "m", "a">>

BuiltinScalars == {IntType, Float, String, Boolean, ID}

DefinedNames(definitions) == {definitions[i].name : i \in 1..Len(definitions)}

RECURSIVE TypeName(_)
TypeName(typeNode) ==
    IF typeNode.kind = "NamedType" THEN typeNode.name ELSE TypeName(typeNode.type)

\* The named types the fields of the document refer to
Referenced(definitions) ==
    UNION {{TypeName(definitions[i].fields[j].type) :
               j \in 1..Len(definitions[i].fields)} : i \in 1..Len(definitions)}

\* A compiled type: object, interface and input types have _fields, each
\* field without a resolver at first.
CompiledType(definition) ==
    [name |-> definition.name,
     fields |-> IF HasFields(definition.kind)
                THEN <<[n \in {definition.fields[j].name :
                                  j \in 1..Len(definition.fields)} |-> None]>>
                ELSE None]

IntrospectionType(name) == [name |-> name, fields |-> <<EmptyMap>>]
ScalarTypeOf(name) == [name |-> name, fields |-> None]

RootType(definitions, name) ==
    IF \E i \in 1..Len(definitions) :
          definitions[i].name = name /\ definitions[i].kind = "ObjectTypeDefinition"
    THEN <<name>> ELSE None

\* buildASTSchema(ast): throws when a type is defined twice or a field names
\* a type that is neither defined nor built in.  No Query type is needed.
\* The documents compiled here never hold two fields of one name in a type.
BuildASTSchema(ast) ==
    LET defs == ast.definitions
        scalars == (Referenced(defs) \cap BuiltinScalars) \cup {String, Boolean}
    IN IF ~ast.defined
       THEN [threw |-> "Error", schema |-> None]
       ELSE IF \E i, j \in 1..Len(defs) : i # j /\ defs[i].name = defs[j].name
       THEN [threw |-> "Error", schema |-> None]
       ELSE IF Referenced(defs) \ (DefinedNames(defs) \cup BuiltinScalars) # {}
       THEN [threw |-> "Error", schema |-> None]
       ELSE [threw |-> "",
             schema |-> <<[typeMap |->
                              [n \in DefinedNames(defs) \cup scalars \cup {SchemaType} |->
                                 IF n = SchemaType THEN IntrospectionType(n)
                                 ELSE IF n \in DefinedNames(defs)
                                 THEN CompiledType(
                                        defs[CHOOSE i \in 1..Len(defs) : defs[i].name = n])
                                 ELSE ScalarTypeOf(n)],
                           queryType |-> RootType(defs, Query),
                           mutationType |-> RootType(defs, Mutation),
                           subscriptionType |-> RootType(defs, Subscription)]>>]

(***************************************************************************)
(* factory(configs).  A config is {name, schema, fields?, queries?,        *)
(* mutations?, subscriptions?}; a mapping of resolvers is given by the     *)
(* set of its keys (<<>> when the config has no such mapping), and the     *)
(* function under a key by where it stands.                                *)
(***************************************************************************)
Config(name, schema, fields, queries, mutations, subscriptions) ==
    [name |-> name, schema |-> schema, fields |-> fields, queries |-> queries,
     mutations |-> mutations, subscriptions |-> subscriptions]

\* map[config.name][key][field]
Fn(name, key, field) == <<[config |-> name, key |-> key, field |-> field]>>

\* `${gqlTypes}|${scalars}|${rootTypes}`: the alternatives of the filter;
\* \w+ after the two underscores needs one word character.
FilterAlternatives ==
    {<<"_", "_", ".">>,
     <<"O", "b", "j", "e", "c", "t">>, <<"E", "n", "u", "m">>,
     <<"U", "n", "i", "o", "n">>,
     <<"I", "n", "t", "e", "r", "f", "a", "c", "e">>,
     IntType, Float, String, Boolean, ID, Query, Mutation, Subscription}

\* filter.test(i)
FilterTest(name) ==
    \E alt \in FilterAlternatives : RegExpTest(NewRegExp(alt, {}), name)

\* map[name] after the loop over cfgs: the last config of that name
MapOf(cfgs, name) ==
    LET S == {i \in 1..Len(cfgs) : cfgs[i].name = name}
    IN IF S = {} THEN None ELSE <<cfgs[CHOOSE i \in S : \A j \in S : j <= i]>>

\* for (let field of Object.keys(mapping)) type._fields[field].resolve = fn,
\* on the type under typeKey.  st = [threw, schema].
Attach(st, typeKey, config, key) ==
    LET type == st.schema.typeMap[typeKey]
        mapping == config[key][1]
    IN IF mapping = {} THEN st
       ELSE IF type.fields = None                 \* undefined[field]
       THEN [st EXCEPT !.threw = "TypeError"]
       ELSE IF mapping \ DOMAIN type.fields[1] # {}   \* undefined.resolve = fn
       THEN [st EXCEPT !.threw = "TypeError"]
       ELSE [st EXCEPT !.schema.typeMap[typeKey].fields =
                <<[f \in DOMAIN type.fields[1] |->
                     IF f \in mapping THEN Fn(config.name, key, f)
                     ELSE type.fields[1][f]]>>]

\* One turn of `for ([execType, configKey] of [...])` for the type under
\* typeKey: the source reads map[type.name][configKey] without testing
\* map[type.name]; the built file tests it first.
RootStep(st, execType, configKey, config, dist) ==
    IF st.threw # "" THEN st
    ELSE IF execType = None THEN st
    ELSE IF config = None
    THEN IF dist THEN st ELSE [st EXCEPT !.threw = "TypeError"]
    ELSE IF config[1][configKey] = None THEN st
    ELSE Attach(st, execType[1], config[1], configKey)

\* The body of `for (let typeKey of remainingTypes)`
WireType(st, typeKey, cfgs, dist) ==
    LET config == MapOf(cfgs, st.schema.typeMap[typeKey].name)
        fielded == IF st.threw = "" /\ config # None /\ config[1].fields # None
                   THEN Attach(st, typeKey, config[1], "fields")
                   ELSE st
        queries == RootStep(fielded, st.schema.queryType, "queries", config, dist)
        mutations == RootStep(queries, st.schema.mutationType, "mutations",
                              config, dist)
    IN RootStep(mutations, st.schema.subscriptionType, "subscriptions",
                config, dist)

\* Object.keys of a set of keys, in some order
RECURSIVE KeysOf(_)
KeysOf(S) ==
    IF S = {} THEN <<>>
    ELSE LET k == CHOOSE x \in S : TRUE IN <<k>> \o KeysOf(S \ {k})

\* remainingTypes, in the order of the type map's keys: the document's
\* definitions first, then the built-in types the schema holds.
RemainingTypes(schema, definitions) ==
    SelectSeq([i \in 1..Len(definitions) |-> definitions[i].name]
                  \o KeysOf(DOMAIN schema.typeMap \ DefinedNames(definitions)),
              LAMBDA n : ~FilterTest(n))

RECURSIVE WireLoop(_, _, _, _, _)
WireLoop(st, remainingTypes, i, cfgs, dist) ==
    IF i > Len(remainingTypes) \/ st.threw # "" THEN st
    ELSE WireLoop(WireType(st, remainingTypes[i], cfgs, dist), remainingTypes,
                  i + 1, cfgs, dist)

\* The first loop, fed one config at a time into a fresh tree each time.
RECURSIVE AssembleLastOnly(_, _, _)
AssembleLastOnly(st, cfgs, i) ==
    IF i > Len(cfgs) \/ st.threw # "" THEN st
    ELSE AssembleLastOnly(AppendDefinitions(EmptyDocument, SDL(cfgs[i].schema)),
                          cfgs, i + 1)

\* for (let config of cfgs) tree.appendDefinitions(config.schema), outside
\* the try.  st = [threw, ast].
RECURSIVE Assemble(_, _, _)
Assemble(st, cfgs, i) ==
    IF i > Len(cfgs) \/ st.threw # "" THEN st
    ELSE Assemble(AppendDefinitions(st.ast, SDL(cfgs[i].schema)), cfgs, i + 1)

\* catch (error) { ...; throw new FactoryParsingError(error) }: the file
\* neither imports nor declares FactoryParsingError, so evaluating the name
\* throws a ReferenceError in place of the wrapped error.
Rethrow(cause, ast) ==
    [threw |-> "ReferenceError", message |-> "FactoryParsingError is not defined",
     cause |-> cause, schema |-> None, ast |-> ast]

\* factory(configs), source (dist = FALSE) and built file (dist = TRUE): what
\* is thrown and with which message, the error caught inside the try
\* (cause), the schema returned and the tree assembled.
Factory(cfgs, dist) ==
    LET tree == Assemble([threw |-> "", ast |-> EmptyDocument], cfgs, 1)
        built == BuildASTSchema(tree.ast)
    IN IF tree.threw # ""
       THEN [threw |-> tree.threw, message |-> tree.threw, cause |-> "",
             schema |-> None, ast |-> tree.ast]
       ELSE IF built.threw # "" THEN Rethrow("compile: " \o built.threw, tree.ast)
       ELSE
       LET wired == WireLoop([threw |-> "", schema |-> built.schema[1]],
                             RemainingTypes(built.schema[1], tree.ast.definitions),
                             1, cfgs, dist)
       IN IF wired.threw # "" THEN Rethrow("wire: " \o wired.threw, tree.ast)
          ELSE [threw |-> "", message |-> "", cause |-> "",
                schema |-> <<wired.schema>>, ast |-> tree.ast]

(***************************************************************************)
(* The configs factory is called with.                                     *)
(***************************************************************************)
MaxConfigs == 2

Planet == <<"P", "l", "a", "n", "e", "t">>
Interval == <<"I", "n", "t", "e", "r", "v", "a", "l">>
Star == <<"S", "t", "a", "r">>
Color == <<"C", "o", "l", "o", "r">>
Moon == <<"M", "o", "o", "n">>
Comet == <<"C", "o", "m", "e", "t">>

QueryOf(fields) == ObjectType(Query, <<>>, <<>>, fields)
Plain(name, fields) == ObjectType(name, <<>>, <<>>, fields)

\* {name: 'A', schema: 'type Query { a: String }', queries: {a}}
CfgA ==
    Config(<<"A">>, Text(<<QueryOf(<<Field(<<"a">>, String)>>)>>),
           None, <<{<<"a">>}>>, None, None)
\* {name: 'B', schema: 'type Query { b: String }', queries: {b}}
CfgB ==
    Config(<<"B">>, Text(<<QueryOf(<<Field(<<"b">>, String)>>)>>),
           None, <<{<<"b">>}>>, None, None)
\* {name: 'C', schema: 'type Query { c: Int }'}
CfgC ==
    Config(<<"C">>, Text(<<QueryOf(<<Field(<<"c">>, IntType)>>)>>),
           None, None, None, None)
\* {name: 'Planet', schema: 'type Planet { x: String } type Query { p: Planet }',
\*  fields: {x}, queries: {p}}
CfgPlanet ==
    Config(Planet,
           Text(<<Plain(Planet, <<Field(<<"x">>, String)>>),
                  QueryOf(<<Field(<<"p">>, Planet)>>)>>),
           <<{<<"x">>}>>, <<{<<"p">>}>>, None, None)
\* {name: 'Interval', schema: 'type Interval { s: Int } type Query { i: Interval }',
\*  fields: {s}, queries: {i}}
CfgInterval ==
    Config(Interval,
           Text(<<Plain(Interval, <<Field(<<"s">>, IntType)>>),
                  QueryOf(<<Field(<<"i">>, Interval)>>)>>),
           <<{<<"s">>}>>, <<{<<"i">>}>>, None, None)
\* {name: 'Star', schema: 'type Star { k: Color } enum Color { R }', fields: {k}}
CfgStar ==
    Config(Star,
           Text(<<Plain(Star, <<Field(<<"k">>, Color)>>),
                  EnumType(Color, <<EnumValue(<<"R">>, "")>>)>>),
           <<{<<"k">>}>>, None, None, None)
\* {name: 'Moon', schema: 'type Moon { m: String } type Mutation { c: Moon }',
\*  fields: {m}, mutations: {c}}
CfgMoon ==
    Config(Moon,
           Text(<<Plain(Moon, <<Field(<<"m">>, String)>>),
                  Plain(Mutation, <<Field(<<"c">>, Moon)>>)>>),
           <<{<<"m">>}>>, None, <<{<<"c">>}>>, None)
\* {name: 'X', schema: 'type Query { q: Y }', queries: {q}}: Y is not defined
CfgUnknownType ==
    Config(<<"X">>, Text(<<QueryOf(<<Field(<<"q">>, <<"Y">>)>>)>>),
           None, <<{<<"q">>}>>, None, None)
\* {name: 'Comet', schema: 'type Comet { z: String }', fields: {w}}: no field w
CfgComet ==
    Config(Comet, Text(<<Plain(Comet, <<Field(<<"z">>, String)>>)>>),
           <<{<<"w">>}>>, None, None, None)

ConfigPool ==
    {CfgA, CfgB, CfgC, CfgPlanet, CfgInterval, CfgStar, CfgMoon, CfgUnknownType,
     CfgComet}

\* Lists of at most MaxConfigs configs, each config at most once
ConfigLists ==
    UNION {{cfgs \in [1..n -> ConfigPool] :
               \A i, j \in 1..n : i # j => cfgs[i] # cfgs[j]} : n \in 0..MaxConfigs}

FactoryCall(op, cfgs, out) ==
    [op |-> op, arg |-> NullArg, cfgs |-> cfgs, pre |-> EmptyDocument,
     threw |-> out.threw, message |-> out.message, cause |-> out.cause,
     found |-> out.schema]

\* factory(configs) of the source; `this` is the tree it assembled.
DoFactory ==
    \E cfgs \in ConfigLists :
        /\ last = NoCall
        /\ \E out \in {Factory(cfgs, FALSE)} :
              /\ this' = out.ast
              /\ last' = FactoryCall("factory", cfgs, out)
        /\ UNCHANGED <<donor, donorAst, ops>>

\* factory(configs) of the built file
DoFactoryDist ==
    \E cfgs \in ConfigLists :
        /\ last = NoCall
        /\ \E out \in {Factory(cfgs, TRUE)} :
              /\ this' = out.ast
              /\ last' = FactoryCall("factory (dist)", cfgs, out)
        /\ UNCHANGED <<donor, donorAst, ops>>

NextFactory == DoFactory \/ DoFactoryDist
SpecFactory == InitEmpty /\ [][NextFactory]_vars

(***************************************************************************)
(* updateAST.  lodash's merge copies the properties the source has onto    *)
(* the target, recursively, arrays index by index.  A property a partial   *)
(* node lacks is "" (kind), <<>> (name, lists).  The documents merged here *)
(* have fields of named types.                                             *)
(***************************************************************************)
Longest(a, b) == IF Len(a) >= Len(b) THEN Len(a) ELSE Len(b)

\* the indexes both arrays have
Common(a, b) == 1..(IF Len(a) <= Len(b) THEN Len(a) ELSE Len(b))

\* merge of two arrays; both[i] is the merge of the elements at an index both
\* arrays have
MergeList(ours, theirs, both) ==
    [i \in 1..Longest(ours, theirs) |->
        IF i > Len(theirs) THEN ours[i]
        ELSE IF i > Len(ours) THEN theirs[i]
        ELSE both[i]]

MergeEnumValue(o, p) ==
    [name |-> IF p.name # <<>> THEN p.name ELSE o.name,
     description |-> IF p.description # "" THEN p.description ELSE o.description]

MergeDefinition(o, p) ==
    [kind |-> IF p.kind # "" THEN p.kind ELSE o.kind,
     name |-> IF p.name # <<>> THEN p.name ELSE o.name,
     interfaces |-> MergeList(o.interfaces, p.interfaces, p.interfaces),
     directives |-> MergeList(o.directives, p.directives, p.directives),
     fields |-> MergeList(o.fields, p.fields, p.fields),
     values |-> MergeList(o.values, p.values,
                    [i \in Common(o.values, p.values) |->
                        MergeEnumValue(o.values[i], p.values[i])]),
     types |-> MergeList(o.types, p.types, p.types)]

\* merge(target, source) on the root objects
Merge(target, source) ==
    [kind |-> IF source.kind # "" THEN source.kind ELSE target.kind,
     defined |-> target.defined \/ source.defined,
     definitions |-> MergeList(target.definitions, source.definitions,
                        [i \in Common(target.definitions, source.definitions) |->
                            MergeDefinition(target.definitions[i],
                                            source.definitions[i])]),
     minusOne |-> target.minusOne]

\* updateAST without the trial print: the merge is always assigned.
UpdateASTUnchecked(ast, patch) ==
    IF typeOf(patch) = "Object"
    THEN [threw |-> "", ast |-> Merge(ast, patch.ast)]
    ELSE [threw |-> "", ast |-> ast]

\* updateAST(ast) on the tree holding ast: what is thrown and the tree's AST
\* afterwards; the call returns this.
UpdateAST(ast, patch) ==
    IF typeOf(patch) = "Object"
    THEN LET newAST == Merge(ast, patch.ast)      \* merge({}, this.ast, ast)
         IN IF print(newAST).threw # ""
            THEN [threw |-> "", ast |-> ast]      \* logged
            ELSE [threw |-> "", ast |-> Merge(ast, patch.ast)]
    ELSE [threw |-> "", ast |-> ast]

\* A node with a name and nothing else, and the object {}
Partial(name) == Definition("", name, <<>>, <<>>, <<>>, <<>>, <<>>)

\* An object with a definitions list and no kind
Fragment(definitions) ==
    [kind |-> "", defined |-> TRUE, definitions |-> definitions, minusOne |-> None]

\* What updateAST is called with
Patches ==
    {AST(EmptyObject),
     AST(Document(<<ObjQb>>)),
     AST(Document(<<ObjQRc, EnumQ1>>)),
     AST(Fragment(<<Partial(R)>>)),
     AST(Fragment(<<Partial(<<>>), Partial(R)>>)),
     SDL(Text(<<ObjQa>>)),
     Instance(Document(<<ObjQa>>)),
     NullArg}

InitUpdate ==
    /\ this \in {TreeOf(f) : f \in Fragments(ObjectPool)} \cup {NewSyntaxTree}
    /\ donor = EmptyDocument
    /\ donorAst = EmptyDocument
    /\ last = NoCall
    /\ ops = 0

DoUpdateAST ==
    \E patch \in Patches :
        /\ ops < MaxOps
        /\ LET out == UpdateAST(this, patch)
           IN /\ this' = out.ast
              /\ last' = Call("updateAST", patch, NoName, this, out.threw, None)
        /\ ops' = ops + 1
        /\ UNCHANGED <<donor, donorAst>>

NextUpdate == DoUpdateAST
SpecUpdate == InitUpdate /\ [][NextUpdate]_vars

(***************************************************************************)
(* The config predicates of language.js.  A config is null, undefined or   *)
(* an object; a property is undefined, the empty string or a value.        *)
(***************************************************************************)
Undefined == "undefined"

Truthy(v) == v \notin {Undefined, ""}

ConfigObject(schema, name, type, resolveType) ==
    [typeof |-> "object", schema |-> schema, name |-> name, type |-> type,
     resolveType |-> resolveType]

Nullish(t) ==
    [typeof |-> t, schema |-> Undefined, name |-> Undefined, type |-> Undefined,
     resolveType |-> Undefined]

\* A property of null or undefined cannot be read
Readable(config) == config.typeof = "object"

\* implementsLatticeSDLConfig(config)
ImplementsLatticeSDLConfig(config) ==
    LET hasRequireds == /\ Readable(config)
                        /\ Truthy(config.schema)
                        /\ Truthy(config.name)
        hasOptionals == hasRequireds /\ Truthy(config.type)
    IN [threw |-> "", value |-> (hasRequireds /\ hasOptionals) \/ hasRequireds]

\* isTypeConfig(config); the configs here declare no queries, mutations or
\* subscriptions
IsTypeConfig(config) ==
    LET hasRequireds == ImplementsLatticeSDLConfig(config).value
        hasOptionals == hasRequireds /\ FALSE
    IN [threw |-> "", value |-> (hasRequireds /\ hasOptionals) \/ hasRequireds]

\* isUnionConfig(config): implementsLatticeSDLConfig is named, not called:
\* the function is truthy, and config.resolveType is read next.
IsUnionConfig(config) ==
    IF ~Readable(config) THEN [threw |-> "TypeError", value |-> FALSE]
    ELSE [threw |-> "", value |-> Truthy(config.resolveType)]

ClassifierConfigs ==
    {ConfigObject(schema, name, type, resolveType) :
        schema \in {Undefined, "", "union U = A | B"},
        name \in {Undefined, "", "U"},
        type \in {Undefined, "union"},
        resolveType \in {Undefined, "function"}}
    \cup {Nullish("null"), Nullish("undefined")}

Classified(op, config, out) ==
    [op |-> op, arg |-> NullArg, config |-> config, pre |-> EmptyDocument,
     threw |-> out.threw, found |-> out.value]

DoImplementsLatticeSDLConfig ==
    \E config \in ClassifierConfigs :
        /\ last = NoCall
        /\ last' = Classified("implementsLatticeSDLConfig", config,
                              ImplementsLatticeSDLConfig(config))
        /\ UNCHANGED <<this, donor, donorAst, ops>>

DoIsTypeConfig ==
    \E config \in ClassifierConfigs :
        /\ last = NoCall
        /\ last' = Classified("isTypeConfig", config, IsTypeConfig(config))
        /\ UNCHANGED <<this, donor, donorAst, ops>>

DoIsUnionConfig ==
    \E config \in ClassifierConfigs :
        /\ last = NoCall
        /\ last' = Classified("isUnionConfig", config, IsUnionConfig(config))
        /\ UNCHANGED <<this, donor, donorAst, ops>>

NextClassifier ==
    \/ DoImplementsLatticeSDLConfig
    \/ DoIsTypeConfig
    \/ DoIsUnionConfig
SpecClassifier == InitEmpty /\ [][NextClassifier]_vars

(***************************************************************************)
(* representsType of language.js.  Here a config is null or an object      *)
(* {name, schema}: name is a sequence of characters (<<>> when the config  *)
(* has none), schema an IDL text.                                          *)
(***************************************************************************)
SDLConfig(name, schema) == [typeof |-> "object", name |-> name, schema |-> schema]

NullConfig == [typeof |-> "null", name |-> <<>>, schema |-> Malformed]

\* The config as SyntaxTree.from receives it: a plain object that has no
\* kind and no definitions, or null.
Passed(config) ==
    IF Readable(config) THEN AST(EmptyObject) ELSE NullArg

LengthKey == <<"l", "e", "n", "g", "t", "h">>

\* array[key] for a key that is a name: names are no indexes, and the one
\* name an array has a property for is length (0 is falsy).
ArrayProp(array, key) == key = LengthKey /\ Len(array) > 0

\* mapping && mapping[key]: the entries are objects and arrays
MapProp(map, key) == key \in DOMAIN map

\* representsType(matches, config, validateExistence): what is thrown and
\* whether the value returned is truthy.
RepresentsType(matches, config, validateExistence) ==
    IF ~validateExistence
    THEN [threw |-> "",
          found |-> /\ Readable(config)
                    /\ config.name # <<>>
                    /\ config.name = matches]
    ELSE LET tree == From(Passed(config))
         IN IF tree.threw # "" THEN [threw |-> tree.threw, found |-> FALSE]
            ELSE IF tree.tree = None              \* null.outline
            THEN [threw |-> "TypeError", found |-> FALSE]
            ELSE LET got == Outline(tree.tree[1])
                 IN IF got.threw # "" THEN [threw |-> got.threw, found |-> FALSE]
                    ELSE LET outline == got.outline[1]
                         IN [threw |-> "",
                             found |-> \/ MapProp(outline.types, matches)
                                       \/ MapProp(outline.enums, matches)
                                       \/ MapProp(outline.interfaces, matches)
                                       \/ MapProp(outline.unions, matches)
                                       \/ ArrayProp(outline.scalars, matches)]

RepresentsConfigs ==
    {SDLConfig(n, Text(defs)) :
        n \in {Planet, Color, <<"S">>, <<>>},
        defs \in {<<Plain(Planet, <<Field(<<"x">>, String)>>)>>,
                  <<Plain(Star, <<Field(<<"k">>, Color)>>),
                    EnumType(Color, <<EnumValue(<<"R">>, "")>>)>>,
                  <<ScalarS, UnionU>>,
                  <<IfaceI, InputN>>}}
    \cup {NullConfig}

RepresentsNames == {Planet, Color, <<"S">>, <<"U">>, <<"I">>, <<"N">>, LengthKey}

Represented(matches, config, validateExistence, out) ==
    [op |-> "representsType", arg |-> NullArg, name |-> matches,
     config |-> config, validateExistence |-> validateExistence,
     pre |-> EmptyDocument, threw |-> out.threw, found |-> out.found]

DoRepresentsType ==
    \E matches \in RepresentsNames, config \in RepresentsConfigs,
       validateExistence \in BOOLEAN :
        /\ last = NoCall
        /\ last' = Represented(matches, config, validateExistence,
                       RepresentsType(matches, config, validateExistence))
        /\ UNCHANGED <<this, donor, donorAst, ops>>

NextRepresents == DoRepresentsType
SpecRepresents == InitEmpty /\ [][NextRepresents]_vars

(***************************************************************************)
(* setAST on a tree that already holds an AST.                             *)
(***************************************************************************)
\* setAST that assigns only what it could parse
SetASTKeepingPrior(prior, mixed) ==
    CASE typeOf(mixed) = "String" ->
            IF parse(mixed.text).threw # "" THEN prior ELSE parse(mixed.text).ast
      [] typeOf(mixed) = "Object" ->
            IF SetAST(mixed.ast) = EmptyObject THEN prior ELSE SetAST(mixed.ast)
      [] typeOf(mixed) = "SyntaxTree" -> mixed.ast
      [] OTHER -> prior

\* setAST(schemaOrASTOrST) on the tree holding prior: the tree's AST
\* afterwards.  this.ast = {} comes first, whatever is passed; then the
\* switch on the type merges into {} what it parsed, errors ignored.  The
\* call returns this and throws nothing.
SetASTOn(prior, mixed) ==
    CASE typeOf(mixed) = "String" ->
            IF parse(mixed.text).threw # "" THEN EmptyObject
            ELSE parse(mixed.text).ast
      [] typeOf(mixed) = "Object" -> SetAST(mixed.ast)
      [] typeOf(mixed) = "SyntaxTree" -> mixed.ast     \* merge({}, st.ast)
      [] OTHER -> EmptyObject

\* What setAST is called with
SetASTInputs == Patches \cup {SDL(Malformed), Instance(EmptyObject)}

DoSetAST ==
    \E mixed \in SetASTInputs :
        /\ ops < MaxOps
        /\ this' = SetASTOn(this, mixed)
        /\ last' = Call("setAST", mixed, NoName, this, "", None)
        /\ ops' = ops + 1
        /\ UNCHANGED <<donor, donorAst>>

NextSetAST == DoSetAST
SpecSetAST == InitUpdate /\ [][NextSetAST]_vars

(***************************************************************************)
(* The identity of definition nodes.  Three SyntaxTree instances: `this`,  *)
(* `donor` and a third one held in `donorAst`.  A definition node carries  *)
(* the identity (`id`) it got when parse, or lodash's merge into a new     *)
(* object, created it; pushing, splicing and assigning a node keep it.     *)
(***************************************************************************)
WithId(node, id) ==
    [x \in (DOMAIN node) \cup {"id"} |-> IF x = "id" THEN id ELSE node[x]]

\* The nodes of a tree as the serial-th parse (or deep merge) creates them:
\* new objects, equal to the ones they were read from.
Allocate(ast, serial) ==
    [ast EXCEPT
        !.definitions = [i \in DOMAIN @ |-> WithId(@[i], <<serial, i>>)],
        !.minusOne = IF @ = None THEN None ELSE <<WithId(@[1], <<serial, 0>>)>>]

\* A copy that is the instance it was made of
SameInstance(st, serial) == Instance(st)

\* The instance st as SyntaxTree.from(st) and new SyntaxTree(st) see it in
\* the serial-th call: st.toString() is reparsed, and merge(this.ast, st.ast)
\* into {} clones the arrays and plain objects it is given.
CopyOf(st, serial) == Instance(Allocate(st, serial))

SharePool == {ObjQa, ObjQRc}
ShareNames == {StringArg(Q), StringArg(QR)}
TreeNames == {"this", "donor", "copy"}

\* The instance under a name, before and after a call that leaves tree t
\* with the AST v
TreeAt(t) ==
    CASE t = "this" -> this [] t = "donor" -> donor [] OTHER -> donorAst

Becomes(t, v) ==
    CASE t = "this" -> this' = v /\ UNCHANGED <<donor, donorAst>>
      [] t = "donor" -> donor' = v /\ UNCHANGED <<this, donorAst>>
      [] OTHER -> donorAst' = v /\ UNCHANGED <<this, donor>>

Shared(op, target, source, name, threw) ==
    [op |-> op, arg |-> NullArg, name |-> name, pre |-> TreeAt(target),
     threw |-> threw, found |-> None, target |-> target, source |-> source,
     sourcePre |-> TreeAt(source)]

InitShare ==
    /\ this \in {Allocate(TreeOf(f), 0) : f \in Fragments(SharePool)}
    /\ donor \in {Allocate(TreeOf(f), -1) : f \in Fragments(SharePool)}
    /\ donorAst = EmptyDocument
    /\ last = NoCall
    /\ ops = 0

\* target.appendDefinitions(source): SyntaxTree.from(source) reparses the
\* source's text into new nodes.
ShareAppend ==
    \E target \in TreeNames : \E source \in TreeNames \ {target} :
        /\ ops < MaxOps
        /\ \E out \in {AppendDefinitions(TreeAt(target),
                          CopyOf(TreeAt(source), ops + 1))} :
              /\ Becomes(target, out.ast)
              /\ last' = Shared("appendDefinitions", target, source, NoName,
                                out.threw)
        /\ ops' = ops + 1

\* target.consumeDefinition(source, name): the source instance is used as
\* it is, and the definition found is taken out of it.
ShareConsume ==
    \E target \in {"this", "donor"}, name \in ShareNames :
        LET source == IF target = "this" THEN "donor" ELSE "this"
        IN /\ ops < MaxOps
           /\ \E out \in {ConsumeDefinition(TreeAt(target),
                             Instance(TreeAt(source)), name)} :
                 /\ IF target = "this"
                    THEN /\ this' = out.ast
                         /\ donor' = IF out.tree = None THEN donor ELSE out.tree[1]
                    ELSE /\ donor' = out.ast
                         /\ this' = IF out.tree = None THEN this ELSE out.tree[1]
                 /\ last' = Shared("consumeDefinition", target, source, name,
                                   out.threw)
           /\ ops' = ops + 1
           /\ UNCHANGED donorAst

\* copy = new SyntaxTree(source), or copy = SyntaxTree.from(source) when
\* the source prints and parses
ShareCopy ==
    \E source \in {"this", "donor"}, way \in {"new SyntaxTree", "from"} :
        /\ ops < MaxOps
        /\ \E made \in {From(CopyOf(TreeAt(source), ops + 1))} :
              /\ way = "from" => (made.threw = "" /\ made.tree # None)
              /\ donorAst' = IF way = "from" THEN made.tree[1]
                             ELSE SetASTOn(EmptyObject,
                                     CopyOf(TreeAt(source), ops + 1))
        /\ last' = Shared(way, "copy", source, NoName, "")
        /\ ops' = ops + 1
        /\ UNCHANGED <<this, donor>>

NextShare == ShareAppend \/ ShareConsume \/ ShareCopy
SpecShare == InitShare /\ [][NextShare]_vars

(***************************************************************************)
(* appendDefinitions with fragments over three names, one of which         *)
(* contains another.                                                       *)
(***************************************************************************)
NamePool == {ScalarR, ObjQRc, ObjQa, UnionQ}

AppendNames == \E mixed \in AppendInputs(NamePool) : DoAppend(mixed)

NextNames == AppendNames
SpecNames == InitEmpty /\ [][NextNames]_vars

(***************************************************************************)
(* consumeAllExecutableTypes.  The schema compiled from the donor has a    *)
(* GraphQLObjectType under _queryType, _mutationType and _subscriptionType *)
(* for a root type the donor defines; for one it does not define the       *)
(* property is null or undefined, depending on the graphql release in use. *)
(***************************************************************************)
AbsentRoot == {"undefined", "null"}

\* One turn of `for (let type of types)`: this.consumeDefinition(
\* astOrSyntaxTree, type).  type.toString() is the type's name; undefined
\* takes the parameter's default, "Query"; null reaches name.toString() in
\* find.  st = [threw, ast, arg]: arg is the donor as it is passed, an
\* instance with what earlier turns left in it.
ConsumeType(st, type, absent) ==
    IF st.threw # "" THEN st
    ELSE IF type = None /\ absent = "null"
    THEN IF ~st.ast.defined THEN st
         ELSE IF DonorTree(st.arg).threw # ""
         THEN [st EXCEPT !.threw = DonorTree(st.arg).threw]
         ELSE [st EXCEPT !.threw = "TypeError"]
    ELSE LET definitionType == StringArg(IF type = None THEN Query ELSE type[1])
             out == ConsumeDefinition(st.ast, st.arg, definitionType)
         IN [threw |-> out.threw,
             ast |-> out.ast,
             arg |-> IF typeOf(st.arg) = "SyntaxTree" /\ out.tree # None
                     THEN Instance(out.tree[1]) ELSE st.arg]

RECURSIVE ConsumeTypes(_, _, _, _)
ConsumeTypes(st, types, i, absent) ==
    IF i > Len(types) THEN st
    ELSE ConsumeTypes(ConsumeType(st, types[i], absent), types, i + 1, absent)

\* consumeAllExecutableTypes(astOrSyntaxTree) on the tree holding ast: what
\* is thrown, this tree's AST afterwards and the donor as it is afterwards.
ConsumeAllExecutableTypes(ast, astOrSyntaxTree, absent) ==
    LET made == DonorTree(astOrSyntaxTree)
        start == [threw |-> "", ast |-> ast, arg |-> astOrSyntaxTree]
    IN IF made.threw # "" THEN [start EXCEPT !.threw = made.threw]
       ELSE IF made.tree = None                          \* null.schema
       THEN [start EXCEPT !.threw = "TypeError"]
       ELSE LET built == BuildASTSchema(made.tree[1])
            IN IF built.threw # "" THEN [start EXCEPT !.threw = built.threw]
               ELSE ConsumeTypes(start,
                                 <<built.schema[1].queryType,
                                   built.schema[1].mutationType,
                                   built.schema[1].subscriptionType>>,
                                 1, absent)

\* type Query { a: String }, type Mutation { m: String },
\* type Subscription { s: String }, type Planet { x: String } in the donor;
\* type Query { b: String } and type Planet { x: String } in this tree
RootPool ==
    {QueryOf(<<Field(<<"a">>, String)>>),
     Plain(Mutation, <<Field(<<"m">>, String)>>),
     Plain(Subscription, <<Field(<<"s">>, String)>>),
     Plain(Planet, <<Field(<<"x">>, String)>>)}

RootThisPool ==
    {QueryOf(<<Field(<<"b">>, String)>>), Plain(Planet, <<Field(<<"x">>, String)>>)}

InitConsumeAll ==
    /\ this \in {TreeOf(f) : f \in Fragments(RootThisPool)}
    /\ \E f \in Fragments(RootPool) : donor = TreeOf(f) /\ donorAst = Document(f)
    /\ last = NoCall
    /\ ops = 0

DoConsumeAll(astOrSyntaxTree) ==
    \E absent \in AbsentRoot :
        /\ ops < MaxOps
        /\ \E out \in {ConsumeAllExecutableTypes(this, astOrSyntaxTree, absent)} :
              /\ this' = out.ast
              /\ donor' = IF typeOf(astOrSyntaxTree) = "SyntaxTree"
                          THEN out.arg.ast ELSE donor
              /\ last' = [Call("consumeAllExecutableTypes", astOrSyntaxTree,
                               NoName, this, out.threw, None)
                          EXCEPT !.found = <<donor>>]
        /\ ops' = ops + 1
        /\ UNCHANGED donorAst

ConsumeAllInstance == DoConsumeAll(Instance(donor))
ConsumeAllDocument == DoConsumeAll(AST(donorAst))

NextConsumeAll == ConsumeAllInstance \/ ConsumeAllDocument
SpecConsumeAll == InitConsumeAll /\ [][NextConsumeAll]_vars

(***************************************************************************)
(* Properties.                                                             *)
(***************************************************************************)
Appended == last.op = "appendDefinitions"

\* The call appended IDL text of exactly one definition to a tree with a list.
AppendedSingle ==
    /\ Appended
    /\ last.pre.defined
    /\ typeOf(last.arg) = "String"
    /\ last.arg.text.ok
    /\ Len(last.arg.text.defs) = 1

Theirs == last.arg.text.defs[1]

\* p is the position of the one definition of defs with that name
OnlyNamed(defs, p, name) ==
    /\ p \in 1..Len(defs)
    /\ \A q \in 1..Len(defs) : defs[q].name = name <=> q = p

ReplaceRule(ours, theirs) ==
    \/ ours.kind # theirs.kind
    \/ theirs.kind \in {"UnionTypeDefinition", "ScalarTypeDefinition"}

\* C1. appendDefinitions, replace rule: when the incoming definition has the
\* name of an existing definition `ours` and the kinds differ (or both are
\* unions or both scalars), then afterwards `theirs` stands at ours's position,
\* `ours` is gone and the list is as long as before, whatever that position.
C1_ReplaceAtOursPosition ==
    AppendedSingle =>
        \A p \in 1..Len(last.pre.definitions) :
            LET ours == last.pre.definitions[p]
            IN (OnlyNamed(last.pre.definitions, p, Theirs.name)
                    /\ ReplaceRule(ours, Theirs))
               => /\ last.threw = ""
                  /\ Len(this.definitions) = Len(last.pre.definitions)
                  /\ this.definitions[p] = Theirs
                  /\ \A i \in 1..Len(this.definitions) :
                        ours # Theirs => this.definitions[i] # ours

Concatenated(ours, theirs) ==
    [ours EXCEPT !.interfaces = ours.interfaces \o theirs.interfaces,
                 !.directives = ours.directives \o theirs.directives,
                 !.fields = ours.fields \o theirs.fields]

\* C2. appendDefinitions, field merge: when the incoming object type has the
\* name and kind of an existing definition, that definition's fields become
\* ours.fields followed by theirs.fields (interfaces and directives likewise),
\* nothing lost and nothing de-duplicated, and the number of definitions stays.
C2_FieldMergeAdditive ==
    AppendedSingle =>
        \A p \in 1..Len(last.pre.definitions) :
            LET ours == last.pre.definitions[p]
            IN (OnlyNamed(last.pre.definitions, p, Theirs.name)
                    /\ Theirs.kind = "ObjectTypeDefinition"
                    /\ ours.kind = Theirs.kind)
               => /\ last.threw = ""
                  /\ Len(this.definitions) = Len(last.pre.definitions)
                  /\ this.definitions[p] = Concatenated(ours, Theirs)

FieldedOnly(k) ==
    k \in {"InterfaceTypeDefinition", "InputObjectTypeDefinition"}

\* C3 as stated. appendDefinitions merges a same-name interface or input
\* object exactly as an object type: the existing definition's fields become
\* ours.fields followed by theirs.fields, directives likewise.
C3_InterfaceInputMerged ==
    AppendedSingle =>
        \A p \in 1..Len(last.pre.definitions) :
            LET ours == last.pre.definitions[p]
            IN (OnlyNamed(last.pre.definitions, p, Theirs.name)
                    /\ FieldedOnly(Theirs.kind)
                    /\ ours.kind = Theirs.kind)
               => /\ Len(this.definitions) = Len(last.pre.definitions)
                  /\ this.definitions[p] = Concatenated(ours, Theirs)

\* C3 as amended. appendDefinitions does not merge a same-name interface or
\* input object: it takes the replace path, as for unions and scalars.  After
\* the call the list is as long as before and each position holds either the
\* definition it held before, unchanged, or the incoming definition: no field
\* list is ever concatenated.
C3_InterfaceInputReplaced ==
    AppendedSingle =>
        ((/\ FieldedOnly(Theirs.kind)
          /\ \E p \in 1..Len(last.pre.definitions) :
                /\ last.pre.definitions[p].name = Theirs.name
                /\ last.pre.definitions[p].kind = Theirs.kind)
         => /\ last.threw = ""
            /\ Len(this.definitions) = Len(last.pre.definitions)
            /\ \A i \in 1..Len(this.definitions) :
                  this.definitions[i] \in {last.pre.definitions[i], Theirs})

\* C3 witness: an interface was appended onto a same-name interface that is
\* not the first definition, and now stands in its place with its own fields.
C3_Witness ==
    /\ AppendedSingle
    /\ Theirs = IfaceQb
    /\ last.pre.definitions = <<ScalarR, IfaceQa>>
    /\ this.definitions = <<ScalarR, IfaceQb>>

ValueNames(values) == {values[i].name : i \in 1..Len(values)}

RECURSIVE Without(_, _)
Without(values, names) ==
    IF values = <<>> THEN <<>>
    ELSE IF Head(values).name \in names THEN Without(Tail(values), names)
    ELSE <<Head(values)>> \o Without(Tail(values), names)

\* C4. appendDefinitions, enum merge: when the incoming enum has the name of
\* an existing enum, that enum's values become ours's values in their order
\* followed by those of theirs's values whose names ours does not have.
C4_EnumUnionFirstWins ==
    AppendedSingle =>
        \A p \in 1..Len(last.pre.definitions) :
            LET ours == last.pre.definitions[p]
            IN (OnlyNamed(last.pre.definitions, p, Theirs.name)
                    /\ Theirs.kind = "EnumTypeDefinition"
                    /\ ours.kind = Theirs.kind)
               => /\ last.threw = ""
                  /\ Len(this.definitions) = Len(last.pre.definitions)
                  /\ this.definitions[p].values =
                        ours.values \o Without(Theirs.values, ValueNames(ours.values))

\* C5. Merge identity: appending SyntaxTree.EmptyDocument() to a tree that
\* has a definitions list throws nothing and leaves the tree's Document as it
\* was.
C5_MergeIdentity ==
    (Appended /\ last.arg = Instance(EmptyDocument) /\ last.pre.defined)
        => last.threw = "" /\ this = last.pre

\* C5 witness: an empty document was appended to a tree that has definitions.
C5_Witness ==
    /\ Appended
    /\ last.arg = Instance(EmptyDocument)
    /\ Len(last.pre.definitions) >= 2
    /\ last.threw = ""

Consumed == last.op = "consumeDefinition"

\* The donor as it was passed, and the object the caller still holds.
DonorBefore == last.arg.ast
DonorAfter == IF typeOf(last.arg) = "SyntaxTree" THEN donor ELSE donorAst

\* The positions (0-based, -1 for none) find() gives in this tree and the donor
LeftIndex == FoundIndex(last.pre.definitions, last.name)
RightIndex == FoundIndex(DonorBefore.definitions, last.name)

\* C6. consumeDefinition transfers ownership: when this tree has no matching
\* definition and the donor has one, this tree's list afterwards ends with
\* that definition and the donor the caller supplied is one definition
\* shorter, whether it was supplied as an instance or as a parsed Document.
C6_ConsumeTransfers ==
    (Consumed /\ last.pre.defined /\ DonorBefore.defined
        /\ LeftIndex = -1 /\ RightIndex # -1)
    => /\ last.threw = ""
       /\ this.definitions =
             Append(last.pre.definitions, DonorBefore.definitions[RightIndex + 1])
       /\ DonorAfter.definitions = Splice(DonorBefore.definitions, RightIndex)

C8_ConsumeNoMatchNoOp ==
    (Consumed /\ DonorBefore.defined /\ RightIndex = -1)
    => /\ last.threw = ""
       /\ this = last.pre
       /\ DonorAfter = DonorBefore

Found == last.op = "find"

\* C9. Exact string lookup: given a string, find returns a node only if the
\* node's name equals the string.
C9_ExactStringLookup ==
    (Found /\ typeOf(last.name) = "String" /\ last.found # None)
        => last.found[1].name = last.name.source

\* The name matches the pattern: at its start for a sticky pattern, anywhere
\* otherwise.
NameMatches(re, name) ==
    IF "y" \in re.flags THEN MatchFrom(re.source, 1, name, 0)
    ELSE \E p \in 0..Len(name) : MatchFrom(re.source, 1, name, p)

MatchingPositions(defs, re) ==
    {i \in 1..Len(defs) : NameMatches(re, defs[i].name)}

Least(S) == CHOOSE i \in S : \A j \in S : i <= j

\* C10. First match wins: given a regular expression, find returns the node
\* of smallest index whose name matches the pattern, whatever the pattern's
\* flags and lastIndex, and null iff no node matches.
C10_FirstMatchWins ==
    (Found /\ typeOf(last.name) = "RegExp" /\ last.pre.defined)
    => LET M == MatchingPositions(last.pre.definitions, last.name)
       IN /\ last.threw = ""
          /\ M = {} <=> last.found = None
          /\ M # {} => last.found = <<last.pre.definitions[Least(M)]>>

\* C10 witness: a global pattern with lastIndex 1 matched two different nodes
\* and the first one, at index 0, was returned.
C10_Witness ==
    /\ Found
    /\ last.name = RegExpArg(<<"Q">>, {"g"}, 1)
    /\ last.pre.definitions = <<ObjQa, ObjQRc>>
    /\ last.found = <<ObjQa>>

(***************************************************************************)
(* Properties of the field and value lookups, the outline and readType.    *)
(***************************************************************************)
LookedUp == last.op \in {"findDefinition", "findField", "findEnumDefinition"}

\* The definition the lookup selects (<<>> when there is none), and whether
\* one of its fields, or of its enum values, has the member name looked up.
Selected ==
    IF last.pre.defined THEN FindDefinition(last.pre, last.name) ELSE None

MemberMatches ==
    /\ Selected # None
    /\ \/ /\ last.op = "findField"
          /\ HasFields(Selected[1].kind)
          /\ FoundIndex(Selected[1].fields, last.member) # -1
       \/ /\ last.op = "findEnumDefinition"
          /\ Selected[1].kind = "EnumTypeDefinition"
          /\ FoundIndex(Selected[1].values, last.member) # -1

NothingMatches ==
    \/ Selected = None
    \/ last.op # "findDefinition" /\ ~MemberMatches

\* C11. A lookup miss is never an error: findDefinition, findField and
\* findEnumDefinition throw nothing and return null whenever nothing
\* matches: no definition matches, or the definition has no matching field
\* or value, or the tree's Document has no definitions list.
C11_LookupMissReturnsNull ==
    (LookedUp /\ NothingMatches) => (last.threw = "" /\ last.found = None)

RECURSIVE BaseTypeName(_)
BaseTypeName(typeNode) ==
    IF typeNode.kind = "NamedType" THEN typeNode.name
    ELSE BaseTypeName(typeNode.type)

MatchedField ==
    Selected[1].fields[FoundIndex(Selected[1].fields, last.member) + 1]

\* C12. findField meta: for every field findField matches, nothing is
\* thrown and meta is {name: the field's name, type: the field's base type
\* name (never null), nullable: the outermost wrapper is not NonNull}, for
\* plain, non-null, list and non-null list types alike.
C12_FindFieldMeta ==
    (last.op = "findField" /\ MemberMatches)
    => /\ last.threw = ""
       /\ last.found # None
       /\ last.found[1].meta =
             <<[name |-> <<MatchedField.name>>,
                type |-> <<BaseTypeName(MatchedField.type)>>,
                nullable |-> MatchedField.type.kind # "NonNullType"]>>

FieldNames(fields) == {fields[i].name : i \in 1..Len(fields)}

Buckets == {"interfaces", "types", "inputs", "enums", "unions", "scalars"}

\* The names a bucket of the outline holds
Names(outline, bucket) ==
    IF bucket = "scalars"
    THEN {outline.scalars[i] : i \in 1..Len(outline.scalars)}
    ELSE DOMAIN outline[bucket]

\* The outline files definition D, and only D's content, under D's kind.
Outlined(outline, D) ==
    /\ D.name \in Names(outline, BucketOf(D.kind))
    /\ HasFields(D.kind) =>
          LET entry == outline[BucketOf(D.kind)][D.name].fields
          IN /\ DOMAIN entry = FieldNames(D.fields)
             /\ \A i \in 1..Len(D.fields) :
                   /\ entry[D.fields[i].name].type = <<BaseTypeName(D.fields[i].type)>>
                   /\ entry[D.fields[i].name].args = <<>>
    /\ D.kind = "EnumTypeDefinition" =>
          outline.enums[D.name] = [v \in ValueNames(D.values) |-> v]
    /\ D.kind = "UnionTypeDefinition" => outline.unions[D.name] = D.types

\* C13. Outline shape: every object, interface and input definition D is
\* under types, interfaces, inputs with exactly one entry per field name of
\* D, whose type is the field's base type name and whose args is empty for a
\* field without arguments; every enum is under enums mapping each value name
\* to itself, every union under unions as its member list, every scalar name
\* in scalars; and a name is in a bucket only if a definition of that
\* bucket's kind has it.
C13_OutlineShape ==
    (last.op = "outline" /\ last.pre.defined)
    => /\ last.threw = ""
       /\ last.found # None
       /\ \A i \in 1..Len(last.pre.definitions) :
             Outlined(last.found[1], last.pre.definitions[i])
       /\ \A b \in Buckets : \A n \in Names(last.found[1], b) :
             \E i \in 1..Len(last.pre.definitions) :
                /\ last.pre.definitions[i].name = n
                /\ BucketOf(last.pre.definitions[i].kind) = b

\* The number of levels readType descends below the node it is given
WrapperLevels == 3

RECURSIVE Wrappers(_)
Wrappers(typeNode) ==
    IF typeNode.kind = "NamedType" THEN 0 ELSE 1 + Wrappers(typeNode.type)

\* C14. readType on a type reference of at most three wrappers: required
\* iff the outermost wrapper is NonNull, array iff the outermost wrapper or
\* the one immediately inside it is a List, type the innermost named type,
\* and name the name passed, if any.
C14_ReadTypeThreeWrappers ==
    (last.op = "readType" /\ Wrappers(last.arg) <= WrapperLevels)
    => LET typeNode == last.arg
           result == last.found[1]
       IN /\ result.required = (typeNode.kind = "NonNullType")
          /\ result.array =
                (\/ typeNode.kind = "ListType"
                 \/ (typeNode.kind # "NamedType" /\ typeNode.type.kind = "ListType"))
          /\ result.type = <<BaseTypeName(typeNode)>>

\* C14 witness: [Int!]! was read as required, an array, of Int.
C14_Witness ==
    /\ last.op = "readType"
    /\ last.arg = NonNullType(ListType(NonNullType(NamedType("Int"))))
    /\ last.found = <<[required |-> TRUE, array |-> TRUE, type |-> <<"Int">>,
                       name |-> <<"a">>]>>

(***************************************************************************)
(* Properties of factory.                                                  *)
(***************************************************************************)
FactoryCalled == last.op \in {"factory", "factory (dist)"}
FactoryReturned == FactoryCalled /\ last.threw = "" /\ last.found # None

\* C15. Factory error wrapping: an exception raised while compiling the
\* merged tree or attaching resolvers makes factory throw a
\* FactoryParsingError with the original error's message; no other error
\* type escapes and no schema is returned.
C15_FactoryErrorWrapped ==
    (FactoryCalled /\ last.cause # "")
    => /\ last.threw = "FactoryParsingError"
       /\ last.message = last.cause
       /\ last.found = None

RootTypes == {Query, Mutation, Subscription}

\* Reserved names as the design describes them: root operation types,
\* introspection types, built-in scalars, and Query/Mutation/Subscription.
Reserved(schema, name) ==
    \/ name \in RootTypes
    \/ name \in BuiltinScalars
    \/ (Len(name) >= 2 /\ name[1] = "_" /\ name[2] = "_")
    \/ <<name>> \in {schema.queryType, schema.mutationType, schema.subscriptionType}

\* The function in schema under type.field
Resolver(schema, typeName, field) ==
    IF typeName \in DOMAIN schema.typeMap
          /\ schema.typeMap[typeName].fields # None
          /\ field \in DOMAIN schema.typeMap[typeName].fields[1]
    THEN schema.typeMap[typeName].fields[1][field]
    ELSE None

\* C16. Factory field resolvers: after factory returns, for every type of
\* the schema that is not reserved and has the name of a Config declaring
\* `fields`, each function of that mapping is the resolver of the same-named
\* field of the type, whatever the type's name (CelestialObject, Interval).
C16_FieldResolversAttached ==
    FactoryReturned =>
        \A i \in 1..Len(last.cfgs) :
            LET config == last.cfgs[i]
            IN (/\ config.fields # None
                /\ config.name \in DOMAIN last.found[1].typeMap
                /\ ~Reserved(last.found[1], config.name))
               => \A f \in config.fields[1] :
                     Resolver(last.found[1], config.name, f)
                        = Fn(config.name, "fields", f)

RootKeys ==
    {<<"queries", Query>>, <<"mutations", Mutation>>, <<"subscriptions", Subscription>>}

\* The config's schema has a definition of that root type
Contributes(config, root) ==
    /\ config.schema.ok
    /\ \E d \in 1..Len(config.schema.defs) : config.schema.defs[d].name = root

\* C17. Factory root resolvers: after factory returns, for every Config
\* declaring queries (mutations, subscriptions) whose schema contributes to
\* Query (Mutation, Subscription), each function of the mapping is the
\* resolver of the same-named field of the root type, also when the Config's
\* name is not the name of a type of the schema.
C17_RootResolversAttached ==
    FactoryReturned =>
        \A i \in 1..Len(last.cfgs), rk \in RootKeys :
            LET config == last.cfgs[i]
            IN (config[rk[1]] # None /\ Contributes(config, rk[2]))
               => \A f \in config[rk[1]][1] :
                     Resolver(last.found[1], rk[2], f) = Fn(config.name, rk[1], f)

\* The config's schema is one `type Query { ... }` whose fields have built-in
\* types
QueryFragment(config) ==
    /\ config.schema.ok
    /\ Len(config.schema.defs) = 1
    /\ config.schema.defs[1].kind = "ObjectTypeDefinition"
    /\ config.schema.defs[1].name = Query
    /\ \A j \in 1..Len(config.schema.defs[1].fields) :
          TypeName(config.schema.defs[1].fields[j].type) \in BuiltinScalars

RECURSIVE FragmentFields(_, _)
FragmentFields(cfgs, i) ==
    IF i > Len(cfgs) THEN <<>>
    ELSE cfgs[i].schema.defs[1].fields \o FragmentFields(cfgs, i + 1)

\* C18. Multi-fragment assembly: for a list of Configs that are all
\* `type Query { ... }` fragments with distinct field names, factory throws
\* nothing and returns a schema whose Query type has every fragment's
\* fields, built from a tree holding the single definition Query with the
\* fragments' fields in input order.
C18_QueryFragmentsAssembled ==
    (/\ FactoryCalled
     /\ Len(last.cfgs) >= 1
     /\ \A i \in 1..Len(last.cfgs) : QueryFragment(last.cfgs[i]))
    => /\ last.threw = ""
       /\ this.definitions = <<QueryOf(FragmentFields(last.cfgs, 1))>>
       /\ last.found # None
       /\ last.found[1].queryType = <<Query>>
       /\ DOMAIN last.found[1].typeMap[Query].fields[1]
             = FieldNames(FragmentFields(last.cfgs, 1))

\* C18 witness: the fragments B and A, in that order, gave Query { b a }.
C18_Witness ==
    /\ last.op = "factory"
    /\ last.cfgs = <<CfgB, CfgA>>
    /\ last.threw = ""
    /\ this.definitions =
          <<QueryOf(<<Field(<<"b">>, String), Field(<<"a">>, String)>>)>>
    /\ DOMAIN last.found[1].typeMap[Query].fields[1] = {<<"a">>, <<"b">>}

(***************************************************************************)
(* Properties of updateAST.                                                *)
(***************************************************************************)
Updated == last.op = "updateAST"

\* The merge of the argument onto the Document cannot be printed
Unprintable == print(Merge(last.pre, last.arg.ast)).threw # ""

\* C19. updateAST fails open and stays valid: when the merge of the
\* supplied AST onto the Document cannot be printed, or the argument is not
\* a plain object, updateAST throws nothing and the tree's Document is
\* exactly as before the call.
C19_UpdateASTFailsOpen ==
    (Updated /\ (typeOf(last.arg) # "Object" \/ Unprintable))
        => (last.threw = "" /\ this = last.pre)

\* C19 witness: a patch that would add a node without a kind after the
\* definition of the tree was refused, and the tree kept its Document.
C19_Witness ==
    /\ Updated
    /\ last.arg = AST(Fragment(<<Partial(<<>>), Partial(R)>>))
    /\ last.pre.definitions = <<ObjQa>>
    /\ Merge(last.pre, last.arg.ast).definitions = <<ObjQa, Partial(R)>>
    /\ this = last.pre

(***************************************************************************)
(* Properties of the config predicates.                                    *)
(***************************************************************************)
\* The named-SDL config shape: an object with non-empty schema and name
NamedSDL(config) ==
    config.typeof = "object" /\ config.schema \notin {Undefined, ""}
        /\ config.name \notin {Undefined, ""}

\* C20. isUnionConfig(config) throws nothing and is true iff config has the
\* named-SDL shape (non-empty schema and name) and declares resolveType: it
\* is false for an object with resolveType that lacks schema or name, and
\* false for null and undefined.
C20_IsUnionConfig ==
    last.op = "isUnionConfig"
    => /\ last.threw = ""
       /\ last.found = (NamedSDL(last.config)
                           /\ last.config.resolveType # Undefined)

(***************************************************************************)
(* representsType.                                                         *)
(***************************************************************************)
RepresentsCalled == last.op = "representsType"

\* The kinds of the outline buckets types, enums, interfaces, unions, scalars
RepresentedKinds ==
    {"ObjectTypeDefinition", "EnumTypeDefinition", "InterfaceTypeDefinition",
     "UnionTypeDefinition", "ScalarTypeDefinition"}

\* The config's schema defines name under one of those kinds
SchemaDefines(config, name) ==
    /\ Readable(config)
    /\ \E i \in 1..Len(config.schema.defs) :
          /\ config.schema.defs[i].name = name
          /\ config.schema.defs[i].kind \in RepresentedKinds

\* C21: representsType(X, config, true) does not throw and is truthy iff the
\* config's schema defines X as a type, enum, interface, union or scalar;
\* representsType(X, config, false) is true iff config.name = X.
C21_RepresentsType ==
    RepresentsCalled =>
        /\ last.threw = ""
        /\ last.validateExistence =>
              (last.found <=> SchemaDefines(last.config, last.name))
        /\ ~last.validateExistence =>
              (last.found <=> (Readable(last.config) /\ last.config.name = last.name))

\* C22: readType on a type reference of any number of NonNull/List wrappers
\* around a named type T gives type = T, never undefined.
C22_ReadTypeAnyDepth ==
    last.op = "readType" => last.found[1].type = <<BaseTypeName(last.arg)>>

(***************************************************************************)
(* setAST.                                                                 *)
(***************************************************************************)
\* setAST was called on a tree holding a Document, with text that does not
\* parse or with an object that does not print
SetASTFailed ==
    /\ last.op = "setAST"
    /\ last.pre.kind = "Document"
    /\ \/ typeOf(last.arg) = "String" /\ parse(last.arg.text).threw # ""
       \/ typeOf(last.arg) = "Object" /\ print(last.arg.ast).threw # ""

\* C23 as stated: after a setAST whose input fails to parse or print, nothing
\* is thrown and the tree holds the Document it held before.
C23_SetASTKeepsPrior ==
    SetASTFailed => (last.threw = "" /\ this = last.pre)

\* C23, amended: after a setAST whose input fails to parse or print, nothing
\* is thrown and the tree holds the empty object {}: the Document it held
\* before is erased.
C23_SetASTErasesPrior ==
    SetASTFailed => (last.threw = "" /\ this = EmptyObject)

\* C23 witness: a tree with definitions was given text that does not parse.
C23_Witness ==
    /\ SetASTFailed
    /\ last.pre.definitions # <<>>
    /\ last.arg = SDL(Malformed)

(***************************************************************************)
(* No structural sharing.                                                  *)
(***************************************************************************)
\* The identities of the definition nodes a tree holds
NodeIds(ast) ==
    {ast.definitions[i].id : i \in 1..Len(ast.definitions)}
    \cup (IF ast.minusOne = None THEN {} ELSE {ast.minusOne[1].id})

\* C24: no definition node is held by two trees at once; appendDefinitions
\* and the construction of a copy leave the source tree as it was.
C24_NoStructuralSharing ==
    /\ NodeIds(this) \cap NodeIds(donor) = {}
    /\ NodeIds(this) \cap NodeIds(donorAst) = {}
    /\ NodeIds(donor) \cap NodeIds(donorAst) = {}
    /\ last.op \in {"appendDefinitions", "new SyntaxTree", "from"}
          => TreeAt(last.source) = last.sourcePre

\* C24 witness: a tree with definitions was appended to a copy made of it,
\* and the copy took a definition from it.
C24_Witness ==
    /\ last.op = "appendDefinitions"
    /\ last.target = "copy"
    /\ last.sourcePre.definitions # <<>>
    /\ Len(donorAst.definitions) > Len(last.pre.definitions)

(***************************************************************************)
(* Name uniqueness.                                                        *)
(***************************************************************************)
UniqueNames(defs) ==
    \A i, j \in 1..Len(defs) : defs[i].name = defs[j].name => i = j

\* The names of before stand after in the order they stood in
OrderKept(before, after) ==
    \A i, j \in 1..Len(before) :
        i < j => \E p, q \in 1..Len(after) :
                    /\ p < q
                    /\ after[p].name = before[i].name
                    /\ after[q].name = before[j].name

\* C25: starting from SyntaxTree.EmptyDocument(), after any sequence of
\* appendDefinitions calls no two definitions of the tree have the same
\* name, and a call leaves the definitions already present in their order.
C25_NamesUnique ==
    /\ UniqueNames(this.definitions)
    /\ Appended => OrderKept(last.pre.definitions, this.definitions)

(***************************************************************************)
(* consumeAllExecutableTypes.                                              *)
(***************************************************************************)
RootNames == {Query, Mutation, Subscription}

\* The donor before the call compiles, and this tree has a definitions list
ConsumedAll ==
    /\ last.op = "consumeAllExecutableTypes"
    /\ last.pre.defined
    /\ BuildASTSchema(last.arg.ast).threw = ""

FieldsUnder(defs, name) ==
    IF \E i \in 1..Len(defs) : defs[i].name = name
    THEN defs[CHOOSE i \in 1..Len(defs) : defs[i].name = name].fields
    ELSE <<>>

\* C26: consumeAllExecutableTypes(other) raises no error; each root type the
\* donor defined is consumed once, so that this tree's definition of that
\* name has the fields it had followed by the donor's; a donor passed as an
\* instance keeps none of its root types and all of its other definitions.
C26_ConsumeAllExecutableTypes ==
    ConsumedAll =>
        LET before == last.arg.ast.definitions
        IN /\ last.threw = ""
           /\ \A i \in 1..Len(before) :
                 before[i].name \in RootNames =>
                    FieldsUnder(this.definitions, before[i].name) =
                       FieldsUnder(last.pre.definitions, before[i].name)
                          \o before[i].fields
           /\ typeOf(last.arg) = "SyntaxTree" =>
                 donor.definitions =
                    SelectSeq(before, LAMBDA d : d.name \notin RootNames)

(***************************************************************************)
(* The target of a merge.                                                  *)
(***************************************************************************)
\* C27: when one definition named N is appended, every definition of the
\* tree whose name is not N stands afterwards where it stood, unchanged:
\* only the definition named N is merged into or replaced.
C27_MergeTargetHasName ==
    AppendedSingle =>
        \A p \in 1..Len(last.pre.definitions) :
            last.pre.definitions[p].name # Theirs.name
                => /\ p <= Len(this.definitions)
                   /\ this.definitions[p] = last.pre.definitions[p]

(***************************************************************************)
(* consumeDefinition and the content of the donor's definition.            *)
(***************************************************************************)
\* Every field, enum value and union member of the definition stands in a
\* definition of the list
HeldIn(defs, definition) ==
    /\ \A j \in 1..Len(definition.fields) :
          \E i \in 1..Len(defs) : \E k \in 1..Len(defs[i].fields) :
             defs[i].fields[k] = definition.fields[j]
    /\ \A j \in 1..Len(definition.values) :
          \E i \in 1..Len(defs) : \E k \in 1..Len(defs[i].values) :
             defs[i].values[k] = definition.values[j]
    /\ \A j \in 1..Len(definition.types) :
          \E i \in 1..Len(defs) : \E k \in 1..Len(defs[i].types) :
             defs[i].types[k] = definition.types[j]

\* C28: after a consumeDefinition in which the donor has a matching
\* definition, every field, enum value and union member of that definition
\* is in this tree, whatever the kinds of the two matching definitions.
C28_ConsumeKeepsContent ==
    (Consumed /\ last.pre.defined /\ DonorBefore.defined /\ RightIndex # -1)
    => /\ last.threw = ""
       /\ HeldIn(this.definitions, DonorBefore.definitions[RightIndex + 1])

(***************************************************************************)
(* Iteration.                                                              *)
(***************************************************************************)
\* C29: iterating a tree whose AST has no definitions list, and reading its
\* outline, completes: nothing is thrown, the iteration yields no
\* definition and the outline is there.
C29_IterationTerminates ==
    (last.op \in {"iterate", "outline"} /\ ~last.pre.defined)
    => /\ last.threw = ""
       /\ last.op = "iterate" => last.found = <<>>
       /\ last.op = "outline" => last.found # None


(***************************************************************************)
(* Types of the merged schema that no config is named after.               *)
(***************************************************************************)
\* The names the wiring loop visits for which map[name] is undefined
Unconfigured ==
    {n \in DefinedNames(this.definitions) :
        ~FilterTest(n) /\ MapOf(last.cfgs, n) = None}

\* No field of the type has a resolver
Unattached(schema, name) ==
    \/ name \notin DOMAIN schema.typeMap
    \/ schema.typeMap[name].fields = None
    \/ \A f \in DOMAIN schema.typeMap[name].fields[1] :
          schema.typeMap[name].fields[1][f] = None

\* C30. Factory skips types without a config: when the merged schema has a
\* non-reserved type that no config is named after, the source factory and
\* the built factory end the same way (same error or same schema), and when
\* the built factory returns, so does this call, with nothing attached to
\* that type.
C30_FactorySkipsUnconfigured ==
    (FactoryCalled /\ this.defined /\ Unconfigured # {})
    => /\ Factory(last.cfgs, FALSE).threw = Factory(last.cfgs, TRUE).threw
       /\ Factory(last.cfgs, FALSE).schema = Factory(last.cfgs, TRUE).schema
       /\ Factory(last.cfgs, TRUE).threw = ""
          => /\ FactoryReturned
             /\ \A n \in Unconfigured : Unattached(last.found[1], n)

====
